---- MODULE Spec2Model ----
(***************************************************************************)
(* State-machine model of SquareShot's ScreenshotOverlay                   *)
(* (src/screenshot_overlay.py) and MultiMonitorScreenshot                  *)
(* (src/screenshot_utils.py), together with the Qt value types they use    *)
(* (QPoint, QRect) and the constants of src/config.py.                     *)
(***************************************************************************)
EXTENDS Integers, Sequences, FiniteSets, TLC

(***************************************************************************)
(* Program constants (src/config.py)                                       *)
(***************************************************************************)
MIN_SELECTION_SIZE == 10
MIN_ARROW_LENGTH == 10
MIN_RECT_SIZE == 5
MAX_HISTORY == 20
OUTLINE_THICKNESS_OFFSET == 2

(***************************************************************************)
(* Bounds of the model                                                     *)
(***************************************************************************)
\* longest annotation list the general specification lets a session build
MaxAnnotations == 1
\* longest annotation list of the deep-history specification (> MAX_HISTORY)
MaxDeepAnnotations == 22
\* longest text buffer
MaxText == 1
\* most capture invocations of one process
MaxCaptures == 2
\* longest text buffer of the text specification
MaxTyped == 2
\* how far the frame specification moves the thickness and the color index
MaxStyleSteps == 1
\* the longest annotation list of the rendering specification
MaxRendered == 2

(***************************************************************************)
(* QPoint / QRect (Qt 6 value types, integer coordinates).  A QRect is      *)
(* stored as its two inclusive corners (x1,y1)-(x2,y2), as Qt does.         *)
(***************************************************************************)
Pt(px, py) == [x |-> px, y |-> py]

\* QPoint(): the null point
QPointNull == Pt(0, 0)

\* QRect(): the null rectangle, x2 = x1 - 1 and y2 = y1 - 1
QRectNull == [x1 |-> 0, y1 |-> 0, x2 |-> -1, y2 |-> -1]

\* QRect(topLeft, bottomRight)
QRectPP(p, q) == [x1 |-> p.x, y1 |-> p.y, x2 |-> q.x, y2 |-> q.y]

\* QRect(topLeft, size)
QRectPS(p, w, h) == [x1 |-> p.x, y1 |-> p.y, x2 |-> p.x + w - 1, y2 |-> p.y + h - 1]

Width(r) == r.x2 - r.x1 + 1
Height(r) == r.y2 - r.y1 + 1
TopLeft(r) == Pt(r.x1, r.y1)
IsValid(r) == r.x1 <= r.x2 /\ r.y1 <= r.y2
IsEmpty(r) == r.x1 > r.x2 \/ r.y1 > r.y2

\* QRect::normalized(): corners swapped when x2 < x1 (resp. y2 < y1), the
\* corners changing from non-inclusive to inclusive at the same time
Normalized(r) ==
    [x1 |-> IF r.x2 < r.x1 THEN r.x2 + 1 ELSE r.x1,
     x2 |-> IF r.x2 < r.x1 THEN r.x1 - 1 ELSE r.x2,
     y1 |-> IF r.y2 < r.y1 THEN r.y2 + 1 ELSE r.y1,
     y2 |-> IF r.y2 < r.y1 THEN r.y1 - 1 ELSE r.y2]

\* QRect::contains(QPoint), proper = false
Contains(r, p) ==
    LET l == IF r.x2 < r.x1 - 1 THEN r.x2 ELSE r.x1
        rr == IF r.x2 < r.x1 - 1 THEN r.x1 ELSE r.x2
        t == IF r.y2 < r.y1 - 1 THEN r.y2 ELSE r.y1
        b == IF r.y2 < r.y1 - 1 THEN r.y1 ELSE r.y2
    IN  p.x >= l /\ p.x <= rr /\ p.y >= t /\ p.y <= b

(***************************************************************************)
(* CoordinateConverter (src/coordinate_converter.py); g is the virtual      *)
(* geometry, whose top-left is the origin of the widget space.              *)
(***************************************************************************)
desktop_to_widget_point(g, p) == Pt(p.x - g.x1, p.y - g.y1)
widget_to_desktop_point(g, p) == Pt(p.x + g.x1, p.y + g.y1)
\* desktop_to_widget of a rectangle that takes x2 - x1 for the width
desktop_to_widget_rect_short(g, r) ==
    QRectPS(desktop_to_widget_point(g, TopLeft(r)), r.x2 - r.x1, r.y2 - r.y1)

desktop_to_widget_rect(g, r) ==
    QRectPS(desktop_to_widget_point(g, TopLeft(r)), Width(r), Height(r))
widget_to_desktop_rect(g, r) ==
    QRectPS(widget_to_desktop_point(g, TopLeft(r)), Width(r), Height(r))

\* QRect::intersected(): the null rectangle when the two do not overlap
Intersected(r, q) ==
    LET l == IF r.x1 > q.x1 THEN r.x1 ELSE q.x1
        rr == IF r.x2 < q.x2 THEN r.x2 ELSE q.x2
        t == IF r.y1 > q.y1 THEN r.y1 ELSE q.y1
        b == IF r.y2 < q.y2 THEN r.y2 ELSE q.y2
    IN  IF IsEmpty(r) \/ IsEmpty(q) \/ l > rr \/ t > b
        THEN QRectNull
        ELSE [x1 |-> l, y1 |-> t, x2 |-> rr, y2 |-> b]

(***************************************************************************)
(* Strings are sequences of one-character strings.                         *)
(***************************************************************************)
\* characters for which str.isprintable() holds
Printable == {"a", " ", "1", "2", "3", "4"}
\* characters str.strip() removes
Whitespace == {" ", "\t"}

RECURSIVE lstrip(_)
lstrip(t) == IF t # <<>> /\ Head(t) \in Whitespace THEN lstrip(Tail(t)) ELSE t

RECURSIVE rstrip(_)
rstrip(t) ==
    IF t # <<>> /\ t[Len(t)] \in Whitespace THEN rstrip(SubSeq(t, 1, Len(t) - 1)) ELSE t

\* str.strip()
strip(t) == rstrip(lstrip(t))

\* str.isprintable() of a key event's text (a string of at most one character)
isprintable(t) == \A i \in 1..Len(t) : t[i] \in Printable

(***************************************************************************)
(* AnnotationColor palette and DrawStyle                                   *)
(***************************************************************************)
colors == <<"RED", "BLUE", "GREEN", "YELLOW", "PURPLE">>

DrawStyle(th, c) == [thickness |-> th, color |-> c]

\* the QColor of each AnnotationColor
rgb(c) ==
    CASE c = "RED" -> <<255, 0, 0>>
      [] c = "BLUE" -> <<0, 0, 255>>
      [] c = "GREEN" -> <<0, 255, 0>>
      [] c = "YELLOW" -> <<255, 255, 0>>
      [] c = "PURPLE" -> <<128, 0, 128>>

White == <<255, 255, 255>>
Black == <<0, 0, 0>>

\* DrawStyle.outline_color
outline_color(st) == IF rgb(st.color) # White THEN White ELSE Black

\* A DrawStyle is an object that wheelEvent and _cycle_color change in place,
\* and self.current_style names one object for the whole session.  An
\* annotation that holds a copy holds the values; an annotation that held the
\* object itself would hold this reference, and draw with whatever the
\* object's fields are when it is drawn.
CurrentStyleObject == [thickness |-> 0, color |-> "self.current_style"]

\* the style an annotation draws with (self.style in the draw methods)
style_of(s, annotation) ==
    IF annotation.style = CurrentStyleObject THEN s.current_style ELSE annotation.style

\* copy() that returns the style object itself
StyleCopy_same_object(st) == CurrentStyleObject

\* DrawStyle.copy(): a new object with the same thickness and color
StyleCopy(st) == DrawStyle(st.thickness, st.color)

ArrowAnnotation(a, b, st) == [type |-> "ARROW", start |-> a, end |-> b, style |-> st]
RectangleAnnotation(r, st) == [type |-> "RECTANGLE", rect |-> r, style |-> st]
TextAnnotation(p, t, st) == [type |-> "TEXT", position |-> p, text |-> t, style |-> st]

(***************************************************************************)
(* The overlay's state: one variable per attribute of ScreenshotOverlay.    *)
(***************************************************************************)
VARIABLES
    virtual_geometry,       \* QRect of the virtual desktop
    background_screenshot,  \* <<w, h>> of the captured image, <<0, 0>> when null
    selection_rect,         \* QRect, desktop coordinates
    is_selecting,
    selection_start,        \* QPoint, desktop coordinates
    selection_complete,
    annotation_mode,        \* "NONE" | "ARROW" | "RECTANGLE" | "TEXT"
    current_color_index,
    current_style,          \* DrawStyle
    annotations,            \* sequence of annotations
    annotation_history,     \* sequence of snapshots (sequences of annotations)
    history_index,          \* 0-based index into annotation_history, -1 if none
    shared_snapshots,       \* the positions of annotation_history whose list is
                            \* the very object self.annotations names
    is_drawing,
    draw_start_point,       \* QPoint, widget coordinates
    current_rect,
    current_arrow_end,
    is_text_editing,
    text_position,
    current_text,
    text_cursor_position,
    is_exiting,
    exit_runs,              \* how often the body of _prepare_exit ran
    app_quit,               \* QApplication.quit() was called
    ev,                     \* the last event delivered and the branch it took
    available,              \* what each backend's availability test finds now
    screens,                \* QApplication.screens(): the screens' geometries
    backends,               \* MultiMonitorScreenshot._backends: <<>> for None,
                            \* else the availability flag stored in each backend
    active_backend,         \* _active_backend: index into backends, 0 for None
    probe_count,            \* how often the backends were built and tested
    capture_calls,          \* the backends whose capture was invoked, in order
    captured,               \* what the last call of capture_all_screens returned
    temp_files              \* how many temporary files of capture calls exist

vars == <<virtual_geometry, background_screenshot, selection_rect, is_selecting,
          selection_start, selection_complete, annotation_mode,
          current_color_index, current_style, annotations, annotation_history,
          history_index, shared_snapshots, is_drawing, draw_start_point,
          current_rect, current_arrow_end, is_text_editing, text_position,
          current_text, text_cursor_position, is_exiting, exit_runs,
          app_quit, ev, available, screens,
          backends, active_backend, probe_count, capture_calls, captured,
          temp_files>>

\* the overlay object as one record, so that methods compose as in the code
Self ==
    [virtual_geometry |-> virtual_geometry,
     background_screenshot |-> background_screenshot,
     selection_rect |-> selection_rect,
     is_selecting |-> is_selecting,
     selection_start |-> selection_start,
     selection_complete |-> selection_complete,
     annotation_mode |-> annotation_mode,
     current_color_index |-> current_color_index,
     current_style |-> current_style,
     annotations |-> annotations,
     annotation_history |-> annotation_history,
     history_index |-> history_index,
     shared_snapshots |-> shared_snapshots,
     is_drawing |-> is_drawing,
     draw_start_point |-> draw_start_point,
     current_rect |-> current_rect,
     current_arrow_end |-> current_arrow_end,
     is_text_editing |-> is_text_editing,
     text_position |-> text_position,
     current_text |-> current_text,
     text_cursor_position |-> text_cursor_position,
     is_exiting |-> is_exiting,
     exit_runs |-> exit_runs,
     app_quit |-> app_quit]

\* the overlay after a handler returned the record t
Becomes(t) ==
    /\ virtual_geometry' = t.virtual_geometry
    /\ background_screenshot' = t.background_screenshot
    /\ selection_rect' = t.selection_rect
    /\ is_selecting' = t.is_selecting
    /\ selection_start' = t.selection_start
    /\ selection_complete' = t.selection_complete
    /\ annotation_mode' = t.annotation_mode
    /\ current_color_index' = t.current_color_index
    /\ current_style' = t.current_style
    /\ annotations' = t.annotations
    /\ annotation_history' = t.annotation_history
    /\ history_index' = t.history_index
    /\ shared_snapshots' = t.shared_snapshots
    /\ is_drawing' = t.is_drawing
    /\ draw_start_point' = t.draw_start_point
    /\ current_rect' = t.current_rect
    /\ current_arrow_end' = t.current_arrow_end
    /\ is_text_editing' = t.is_text_editing
    /\ text_position' = t.text_position
    /\ current_text' = t.current_text
    /\ text_cursor_position' = t.text_cursor_position
    /\ is_exiting' = t.is_exiting
    /\ exit_runs' = t.exit_runs
    /\ app_quit' = t.app_quit

(***************************************************************************)
(* MultiMonitorScreenshot (src/screenshot_utils.py).  The class attributes  *)
(* are one record, so that the static methods compose as in the code; av is *)
(* what the availability tests find, scr the screens, when the call runs.   *)
(***************************************************************************)
\* the backends in the order _initialize_backends lists them
BackendNames ==
    <<"Qt Native", "Grim (Wayland)", "GNOME Screenshot", "Spectacle (KDE)", "ImageMagick">>

\* a null QPixmap, and also the None a backend returns
NullPixmap == <<0, 0>>

Cls ==
    [backends |-> backends,
     active_backend |-> active_backend,
     probe_count |-> probe_count,
     capture_calls |-> capture_calls,
     temp_files |-> temp_files]

\* the class attributes before the first call
ClsUnset ==
    [backends |-> <<>>, active_backend |-> 0, probe_count |-> 0, capture_calls |-> <<>>,
     temp_files |-> 0]

\* QRect::isNull()
IsNull(r) == r.x2 = r.x1 - 1 /\ r.y2 = r.y1 - 1

\* QRect::united() of two rectangles that are null or valid
United(r, q) ==
    IF IsNull(r) THEN q
    ELSE IF IsNull(q) THEN r
    ELSE [x1 |-> IF r.x1 < q.x1 THEN r.x1 ELSE q.x1,
          y1 |-> IF r.y1 < q.y1 THEN r.y1 ELSE q.y1,
          x2 |-> IF r.x2 > q.x2 THEN r.x2 ELSE q.x2,
          y2 |-> IF r.y2 > q.y2 THEN r.y2 ELSE q.y2]

\* the loop over the screens that unites their geometries, from screen i on
RECURSIVE united_screens(_, _, _)
united_screens(scr, i, acc) ==
    IF i > Len(scr) THEN acc ELSE united_screens(scr, i + 1, United(acc, scr[i]))

\* ScreenshotBackend.get_virtual_geometry
backend_get_virtual_geometry(scr) ==
    IF scr = <<>> THEN QRectNull ELSE united_screens(scr, 1, QRectNull)

\* the loop "for backend in cls._backends" from backend i on: the first
\* backend whose stored flag is set, 0 when the loop ends without a break
RECURSIVE first_available(_, _)
first_available(flags, i) ==
    IF i > Len(flags) THEN 0
    ELSE IF flags[i] THEN i
    ELSE first_available(flags, i + 1)

\* _initialize_backends that builds and tests the backends on every call
initialize_backends_every_call(c, av) ==
    [c EXCEPT !.backends = av,
              !.active_backend = first_available(av, 1),
              !.probe_count = c.probe_count + 1]

initialize_backends(c, av) ==
    IF c.backends # <<>>
    THEN c
    ELSE [c EXCEPT !.backends = av,
                   !.active_backend = first_available(av, 1),
                   !.probe_count = c.probe_count + 1]

\* a call returns the class attributes it leaves and its result
Returned(c, result) == [cls |-> c, result |-> result]

get_virtual_geometry(c, av, scr) ==
    LET c1 == initialize_backends(c, av)
    IN  IF c1.active_backend # 0
        THEN Returned(c1, backend_get_virtual_geometry(scr))
        ELSE IF scr = <<>>
             THEN Returned(c1, QRectNull)
             ELSE Returned(c1, united_screens(scr, 1, QRectNull))

\* how the capture of a backend can end: for the external tools, the exit
\* status of the subprocess and the image file it leaves
CaptureOutcomes == {"ok", "nonzero_exit", "timeout", "missing_file", "unreadable_image"}

\* capture_all_screens of backend i: the size of the pixmap, NullPixmap for
\* None.  Qt Native paints the screens into a pixmap of the virtual size; the
\* external tools write a file that is loaded when the exit status is 0, the
\* file exists and QPixmap can read it
backend_capture(i, virtual_rect, outcome) ==
    IF i = 1
    THEN IF IsEmpty(virtual_rect)
         THEN NullPixmap
         ELSE <<Width(virtual_rect), Height(virtual_rect)>>
    ELSE IF outcome = "ok"
         THEN <<Width(virtual_rect), Height(virtual_rect)>>
         ELSE NullPixmap

\* how subprocess.run can end besides the outcomes above: it raises
\* FileNotFoundError when the tool is gone, or another OSError
CaptureEndings == CaptureOutcomes \cup {"not_found", "os_error"}

\* the exception leaves capture_all_screens of backend i: no except clause
\* names OSError, and only Grim's names FileNotFoundError
backend_raises(i, ending) ==
    /\ i # 1
    /\ \/ ending = "os_error"
       \/ ending = "not_found" /\ i # 2

\* what a call that an exception left returns: nothing
Raised == <<-1, -1>>

\* os.unlink(temp_path) inside try / except OSError: the file, 1 when it
\* exists and 0 when not, is gone afterwards
unlink(file) == 0

\* the temporary file that stays behind when the unlink is the last statement
\* of the try block instead of a finally clause
temp_file_left_no_finally(i, ending) ==
    IF i = 1
    THEN 0
    ELSE LET created == 1
             after_run == IF ending = "missing_file" THEN 0 ELSE created
         IN  IF ending \in {"timeout", "not_found", "os_error"}
             THEN after_run
             ELSE unlink(after_run)

\* the temporary file of one capture call of backend i, 1 when it exists at
\* the end of the call: Qt Native makes none; the others create it
\* (NamedTemporaryFile, delete=False), run the tool, which may remove it, and
\* unlink it in the finally clause on every way out
temp_file_left(i, ending) ==
    IF i = 1
    THEN 0
    ELSE LET created == 1
             after_run == IF ending = "missing_file" THEN 0 ELSE created
         IN  unlink(after_run)

\* capture_all_screens that tries the next available backends when the
\* pinned one fails
capture_all_screens_fallback(c, av, scr, outcome) ==
    LET c1 == initialize_backends(c, av)
        geometry == get_virtual_geometry(c1, av, scr)
        c2 == geometry.cls
        virtual_rect == geometry.result
        pixmap == backend_capture(c2.active_backend, virtual_rect, outcome)
        c3 == [c2 EXCEPT !.capture_calls = Append(c2.capture_calls, c2.active_backend)]
        next == first_available([i \in 1..Len(c2.backends) |->
                                    i > c2.active_backend /\ c2.backends[i]], 1)
    IN  IF c1.active_backend = 0
        THEN Returned(c1, NullPixmap)
        ELSE IF IsEmpty(virtual_rect)
        THEN Returned(c2, NullPixmap)
        ELSE IF pixmap = NullPixmap /\ next # 0
        THEN Returned([c3 EXCEPT !.capture_calls = Append(c3.capture_calls, next)],
                      backend_capture(next, virtual_rect, "ok"))
        ELSE Returned(c3, pixmap)

capture_all_screens(c, av, scr, outcome) ==
    LET c1 == initialize_backends(c, av)
        geometry == get_virtual_geometry(c1, av, scr)
        c2 == geometry.cls
        virtual_rect == geometry.result
        pixmap == backend_capture(c2.active_backend, virtual_rect, outcome)
        c3 == [c2 EXCEPT !.capture_calls = Append(c2.capture_calls, c2.active_backend),
                         !.temp_files = @ + temp_file_left(c2.active_backend, outcome)]
    IN  IF c1.active_backend = 0
        THEN Returned(c1, NullPixmap)
        ELSE IF IsEmpty(virtual_rect)
        THEN Returned(c2, NullPixmap)
        ELSE IF backend_raises(c2.active_backend, outcome)
        THEN Returned(c3, Raised)
        ELSE IF pixmap = NullPixmap
        THEN Returned(c3, NullPixmap)
        ELSE Returned(c3, pixmap)

\* get_backend_info: per backend its name, its stored flag and the ACTIVE mark
get_backend_info(c, av) ==
    LET c1 == initialize_backends(c, av)
    IN  Returned(c1, [i \in 1..Len(c1.backends) |->
                         [name |-> BackendNames[i],
                          available |-> c1.backends[i],
                          active |-> i = c1.active_backend]])

(***************************************************************************)
(* History (ScreenshotOverlay.add_to_history / undo / redo)                *)
(***************************************************************************)
\* Python lists are objects: self.annotations and a snapshot in the log may be
\* one list, and then a change of the list in place shows in both.  The
\* positions of such snapshots are s.shared_snapshots.
\* self.annotations.append(annotation)
list_append(s, annotation) ==
    [s EXCEPT !.annotations = Append(@, annotation),
              !.annotation_history =
                  [i \in 1..Len(@) |->
                      IF i \in s.shared_snapshots
                      THEN Append(s.annotations, annotation)
                      ELSE @[i]]]

\* self.annotations.clear()
list_clear(s) ==
    [s EXCEPT !.annotations = <<>>,
              !.annotation_history =
                  [i \in 1..Len(@) |-> IF i \in s.shared_snapshots THEN <<>> ELSE @[i]]]

\* add_to_history that evicts the oldest snapshot and leaves the index alone
add_to_history_no_shift(s) ==
    LET cut == SubSeq(s.annotation_history, 1, s.history_index + 1)
        app == Append(cut, s.annotations)
        idx == s.history_index + 1
    IN  IF Len(app) > MAX_HISTORY
        THEN [s EXCEPT !.annotation_history = Tail(app), !.history_index = idx]
        ELSE [s EXCEPT !.annotation_history = app, !.history_index = idx]

\* add_to_history that never evicts
add_to_history_unbounded(s) ==
    LET cut == SubSeq(s.annotation_history, 1, s.history_index + 1)
    IN  [s EXCEPT !.annotation_history = Append(cut, s.annotations),
                  !.history_index = s.history_index + 1]

\* add_to_history that keeps the snapshots after the current index
add_to_history_keep_redo(s) ==
    LET app == Append(s.annotation_history, s.annotations)
        idx == s.history_index + 1
    IN  IF Len(app) > MAX_HISTORY
        THEN [s EXCEPT !.annotation_history = Tail(app), !.history_index = idx - 1]
        ELSE [s EXCEPT !.annotation_history = app, !.history_index = idx]

\* add_to_history that appends self.annotations itself instead of a copy
add_to_history_no_copy(s) ==
    LET cut == SubSeq(s.annotation_history, 1, s.history_index + 1)
        kept == s.shared_snapshots \cap (1..Len(cut))
        app == Append(cut, s.annotations)
        shared == kept \cup {Len(app)}
        idx == s.history_index + 1
    IN  IF Len(app) > MAX_HISTORY
        THEN [s EXCEPT !.annotation_history = Tail(app), !.history_index = idx - 1,
                       !.shared_snapshots = {i - 1 : i \in shared \ {1}}]
        ELSE [s EXCEPT !.annotation_history = app, !.history_index = idx,
                       !.shared_snapshots = shared]

\* the slice keeps the snapshot objects before the cut, the copy that is
\* appended is a new list, and pop(0) moves every snapshot one position down
add_to_history(s) ==
    LET cut == SubSeq(s.annotation_history, 1, s.history_index + 1)
        kept == s.shared_snapshots \cap (1..Len(cut))
        app == Append(cut, s.annotations)
        idx == s.history_index + 1
    IN  IF Len(app) > MAX_HISTORY
        THEN [s EXCEPT !.annotation_history = Tail(app), !.history_index = idx - 1,
                       !.shared_snapshots = {i - 1 : i \in kept \ {1}}]
        ELSE [s EXCEPT !.annotation_history = app, !.history_index = idx,
                       !.shared_snapshots = kept]

\* undo whose guard is history_index >= 0: at index 0 it steps to index -1,
\* which a Python list reads as its last element
undo_below_zero(s) ==
    IF s.history_index >= 0 /\ s.annotation_history # <<>>
    THEN [s EXCEPT !.history_index = s.history_index - 1,
                   !.annotations =
                       IF s.history_index = 0
                       THEN s.annotation_history[Len(s.annotation_history)]
                       ELSE s.annotation_history[s.history_index]]
    ELSE s

\* self.annotations becomes a copy of the snapshot, a list of its own
undo(s) ==
    IF s.history_index > 0
    THEN [s EXCEPT !.history_index = s.history_index - 1,
                   !.annotations = s.annotation_history[s.history_index],
                   !.shared_snapshots = {}]
    ELSE s

\* redo that moves the index and reads the snapshot it came from
redo_stale(s) ==
    IF s.history_index < Len(s.annotation_history) - 1
    THEN [s EXCEPT !.history_index = s.history_index + 1,
                   !.annotations = s.annotation_history[s.history_index + 1],
                   !.shared_snapshots = {}]
    ELSE s

redo(s) ==
    IF s.history_index < Len(s.annotation_history) - 1
    THEN [s EXCEPT !.history_index = s.history_index + 1,
                   !.annotations = s.annotation_history[s.history_index + 2],
                   !.shared_snapshots = {}]
    ELSE s

set_annotation_mode(s, mode) == [s EXCEPT !.annotation_mode = mode]

\* finish_text_editing that neither tests nor stores the trimmed buffer
finish_text_editing_untrimmed(s) ==
    LET committed ==
            IF s.is_text_editing /\ s.current_text # <<>>
            THEN add_to_history(
                     [s EXCEPT !.annotations =
                         Append(s.annotations,
                                TextAnnotation(s.text_position, s.current_text,
                                               StyleCopy(s.current_style)))])
            ELSE s
    IN  [committed EXCEPT !.is_text_editing = FALSE, !.current_text = <<>>]

finish_text_editing(s) ==
    LET committed ==
            IF s.is_text_editing /\ strip(s.current_text) # <<>>
            THEN add_to_history(
                     list_append(s, TextAnnotation(s.text_position, strip(s.current_text),
                                                   StyleCopy(s.current_style))))
            ELSE s
    IN  [committed EXCEPT !.is_text_editing = FALSE, !.current_text = <<>>]

(***************************************************************************)
(* Pointer handling                                                        *)
(***************************************************************************)
start_text_editing(s, pos) ==
    [s EXCEPT !.is_text_editing = TRUE,
              !.text_position = pos,
              !.current_text = <<>>,
              !.text_cursor_position = 0,
              !.is_drawing = FALSE]

\* start_new_selection that forgets to clear the annotation list
start_new_selection_keep(s, desktop_pos) ==
    LET reset ==
            [s EXCEPT !.selection_complete = FALSE,
                      !.is_selecting = TRUE,
                      !.selection_start = desktop_pos,
                      !.selection_rect = QRectNull,
                      !.annotation_mode = "NONE",
                      !.annotation_history = <<>>,
                      !.history_index = -1,
                      !.is_drawing = FALSE,
                      !.current_rect = QRectNull,
                      !.current_arrow_end = QPointNull]
    IN  finish_text_editing(reset)

\* start_new_selection without the last call of finish_text_editing
start_new_selection_text_open(s, desktop_pos) ==
    [list_clear(s)
        EXCEPT !.selection_complete = FALSE,
              !.is_selecting = TRUE,
              !.selection_start = desktop_pos,
              !.selection_rect = QRectNull,
              !.annotation_mode = "NONE",
              !.annotation_history = <<>>,
              !.shared_snapshots = {},
              !.history_index = -1,
              !.is_drawing = FALSE,
              !.current_rect = QRectNull,
              !.current_arrow_end = QPointNull]

start_new_selection(s, desktop_pos) ==
    LET reset ==
            [list_clear(s)
                EXCEPT !.selection_complete = FALSE,
                      !.is_selecting = TRUE,
                      !.selection_start = desktop_pos,
                      !.selection_rect = QRectNull,
                      !.annotation_mode = "NONE",
                      !.annotation_history = <<>>,
                      !.shared_snapshots = {},
                      !.history_index = -1,
                      !.is_drawing = FALSE,
                      !.current_rect = QRectNull,
                      !.current_arrow_end = QPointNull]
    IN  finish_text_editing(reset)

\* handle_annotation_click that skips the last call of start_text_editing when
\* an edit was already restarted, so that the drawing flag of line 204 stays set
handle_annotation_click_keeps_drawing(s, widget_pos) ==
    IF s.annotation_mode = "NONE"
    THEN s
    ELSE LET s1 == IF s.is_text_editing /\ s.annotation_mode = "TEXT"
                   THEN start_text_editing(finish_text_editing(s), widget_pos)
                   ELSE IF s.is_text_editing
                        THEN finish_text_editing(s)
                        ELSE s
             s2 == [s1 EXCEPT !.is_drawing = TRUE, !.draw_start_point = widget_pos]
         IN  IF s2.annotation_mode = "TEXT" /\ ~s2.is_text_editing
             THEN start_text_editing(s2, widget_pos)
             ELSE s2

handle_annotation_click(s, widget_pos) ==
    IF s.annotation_mode = "NONE"
    THEN s
    ELSE LET s1 == IF s.is_text_editing /\ s.annotation_mode = "TEXT"
                   THEN start_text_editing(finish_text_editing(s), widget_pos)
                   ELSE IF s.is_text_editing
                        THEN finish_text_editing(s)
                        ELSE s
             s2 == [s1 EXCEPT !.is_drawing = TRUE, !.draw_start_point = widget_pos]
         IN  IF s2.annotation_mode = "TEXT"
             THEN start_text_editing(s2, widget_pos)
             ELSE s2

\* mousePressEvent that starts a new selection wherever the press lands
mousePressEvent_always_selects(s, button, widget_pos) ==
    IF s.is_exiting
    THEN s
    ELSE IF button = "Left"
         THEN start_new_selection(
                  s, widget_to_desktop_point(s.virtual_geometry, widget_pos))
         ELSE s

mousePressEvent(s, button, widget_pos) ==
    IF s.is_exiting
    THEN s
    ELSE LET desktop_pos == widget_to_desktop_point(s.virtual_geometry, widget_pos)
             selection_widget == desktop_to_widget_rect(s.virtual_geometry, s.selection_rect)
         IN  IF button = "Left"
             THEN IF ~s.selection_complete
                  THEN [s EXCEPT !.is_selecting = TRUE,
                                 !.selection_start = desktop_pos,
                                 !.selection_rect = QRectNull]
                  ELSE IF ~Contains(selection_widget, widget_pos)
                       THEN start_new_selection(s, desktop_pos)
                       ELSE handle_annotation_click(s, widget_pos)
             ELSE s

mouseMoveEvent(s, widget_pos) ==
    IF s.is_exiting
    THEN s
    ELSE LET desktop_pos == widget_to_desktop_point(s.virtual_geometry, widget_pos)
         IN  IF s.is_selecting
             THEN [s EXCEPT !.selection_rect =
                                Normalized(QRectPP(s.selection_start, desktop_pos))]
             ELSE IF s.is_drawing /\ s.annotation_mode = "RECTANGLE"
                  THEN [s EXCEPT !.current_rect =
                                     Normalized(QRectPP(s.draw_start_point, widget_pos))]
                  ELSE IF s.is_drawing /\ s.annotation_mode = "ARROW"
                       THEN [s EXCEPT !.current_arrow_end = widget_pos]
                       ELSE s

\* complete_selection that compares with MIN_RECT_SIZE
complete_selection_rect_size(s) ==
    LET s1 == [s EXCEPT !.is_selecting = FALSE]
    IN  IF Width(s1.selection_rect) > MIN_RECT_SIZE
           /\ Height(s1.selection_rect) > MIN_RECT_SIZE
        THEN [s1 EXCEPT !.selection_complete = TRUE,
                        !.annotation_history = << <<>> >>,
                        !.history_index = 0]
        ELSE s1

complete_selection(s) ==
    LET s1 == [s EXCEPT !.is_selecting = FALSE]
    IN  IF Width(s1.selection_rect) > MIN_SELECTION_SIZE
           /\ Height(s1.selection_rect) > MIN_SELECTION_SIZE
        THEN [s1 EXCEPT !.selection_complete = TRUE,
                        !.annotation_history = << <<>> >>,
                        !.shared_snapshots = {},
                        !.history_index = 0]
        ELSE s1

\* the squared Euclidean length the arrow gate compares with MIN_ARROW_LENGTH
SquaredLength(a, b) == (b.x - a.x) * (b.x - a.x) + (b.y - a.y) * (b.y - a.y)

\* drawn_annotation without the arrow's length gate
drawn_annotation_no_gate(s, end_pos) ==
    LET rect == Normalized(QRectPP(s.draw_start_point, end_pos))
    IN  IF s.annotation_mode = "ARROW"
        THEN <<ArrowAnnotation(s.draw_start_point, end_pos, StyleCopy(s.current_style))>>
        ELSE IF s.annotation_mode = "RECTANGLE"
             THEN IF Width(rect) > MIN_RECT_SIZE /\ Height(rect) > MIN_RECT_SIZE
                  THEN <<RectangleAnnotation(rect, StyleCopy(s.current_style))>>
                  ELSE <<>>
             ELSE <<>>

\* drawn_annotation without the rectangle's size gate
drawn_annotation_no_rect_gate(s, end_pos) ==
    LET rect == Normalized(QRectPP(s.draw_start_point, end_pos))
    IN  IF s.annotation_mode = "ARROW"
        THEN IF SquaredLength(s.draw_start_point, end_pos)
                    >= MIN_ARROW_LENGTH * MIN_ARROW_LENGTH
             THEN <<ArrowAnnotation(s.draw_start_point, end_pos, StyleCopy(s.current_style))>>
             ELSE <<>>
        ELSE IF s.annotation_mode = "RECTANGLE"
             THEN <<RectangleAnnotation(rect, StyleCopy(s.current_style))>>
             ELSE <<>>

\* the annotation complete_drawing builds: <<annotation>>, or <<>> for None
drawn_annotation(s, end_pos) ==
    LET rect == Normalized(QRectPP(s.draw_start_point, end_pos))
    IN  IF s.annotation_mode = "ARROW"
        THEN IF SquaredLength(s.draw_start_point, end_pos)
                    >= MIN_ARROW_LENGTH * MIN_ARROW_LENGTH
             THEN <<ArrowAnnotation(s.draw_start_point, end_pos, StyleCopy(s.current_style))>>
             ELSE <<>>
        ELSE IF s.annotation_mode = "RECTANGLE"
             THEN IF Width(rect) > MIN_RECT_SIZE /\ Height(rect) > MIN_RECT_SIZE
                  THEN <<RectangleAnnotation(rect, StyleCopy(s.current_style))>>
                  ELSE <<>>
             ELSE <<>>

complete_drawing(s, end_pos) ==
    LET s1 == [s EXCEPT !.is_drawing = FALSE]
        annotation == drawn_annotation(s1, end_pos)
        s2 == IF annotation # <<>>
              THEN add_to_history(list_append(s1, annotation[1]))
              ELSE s1
    IN  [s2 EXCEPT !.current_rect = QRectNull, !.current_arrow_end = QPointNull]

mouseReleaseEvent(s, button, widget_pos) ==
    IF s.is_exiting
    THEN s
    ELSE IF button # "Left"
         THEN s
         ELSE IF s.is_selecting
              THEN complete_selection(s)
              ELSE IF s.is_drawing
                   THEN complete_drawing(s, widget_pos)
                   ELSE s

\* wheelEvent without min(20, ..) and max(1, ..)
wheelEvent_unclamped(s, delta) ==
    IF s.is_exiting
    THEN s
    ELSE IF s.selection_complete
         THEN IF delta > 0
              THEN [s EXCEPT !.current_style.thickness = s.current_style.thickness + 1]
              ELSE [s EXCEPT !.current_style.thickness = s.current_style.thickness - 1]
         ELSE s

\* wheelEvent without the guard on the exiting flag
wheelEvent_while_exiting(s, delta) ==
    IF s.selection_complete
    THEN IF delta > 0
         THEN [s EXCEPT !.current_style.thickness =
                   IF s.current_style.thickness + 1 < 20
                   THEN s.current_style.thickness + 1 ELSE 20]
         ELSE [s EXCEPT !.current_style.thickness =
                   IF s.current_style.thickness - 1 > 1
                   THEN s.current_style.thickness - 1 ELSE 1]
    ELSE s

wheelEvent(s, delta) ==
    IF s.is_exiting
    THEN s
    ELSE IF s.selection_complete
         THEN IF delta > 0
              THEN [s EXCEPT !.current_style.thickness =
                        IF s.current_style.thickness + 1 < 20
                        THEN s.current_style.thickness + 1 ELSE 20]
              ELSE [s EXCEPT !.current_style.thickness =
                        IF s.current_style.thickness - 1 > 1
                        THEN s.current_style.thickness - 1 ELSE 1]
         ELSE s

(***************************************************************************)
(* Export and exit                                                         *)
(***************************************************************************)
\* extract_rect_from_pixmap that copies the translated rectangle unclipped
extract_rect_from_pixmap_unclipped(source, desktop_rect, geometry) ==
    IF source = <<0, 0>> \/ IsEmpty(desktop_rect)
    THEN QRectNull
    ELSE [x1 |-> desktop_rect.x1 - geometry.x1,
          y1 |-> desktop_rect.y1 - geometry.y1,
          x2 |-> desktop_rect.x1 - geometry.x1 + Width(desktop_rect) - 1,
          y2 |-> desktop_rect.y1 - geometry.y1 + Height(desktop_rect) - 1]

\* MultiMonitorScreenshot.extract_rect_from_pixmap: the rectangle of the
\* source image that is copied, QRectNull when the result is a null pixmap
extract_rect_from_pixmap(source, desktop_rect, geometry) ==
    LET pixmap_rect == [x1 |-> desktop_rect.x1 - geometry.x1,
                        y1 |-> desktop_rect.y1 - geometry.y1,
                        x2 |-> desktop_rect.x1 - geometry.x1 + Width(desktop_rect) - 1,
                        y2 |-> desktop_rect.y1 - geometry.y1 + Height(desktop_rect) - 1]
        pixmap_bounds == [x1 |-> 0, y1 |-> 0, x2 |-> source[1] - 1, y2 |-> source[2] - 1]
    IN  IF source = <<0, 0>> \/ IsEmpty(desktop_rect)
        THEN QRectNull
        ELSE Intersected(pixmap_rect, pixmap_bounds)

\* get_selected_pixmap_with_annotations: source_rect is the part of the capture
\* image the result shows (QRectNull for a null pixmap), translate the
\* painter's translation, drawn the annotations painted, in painting order
get_selected_pixmap_with_annotations(s) ==
    LET base_pixmap == extract_rect_from_pixmap(s.background_screenshot, s.selection_rect,
                                                s.virtual_geometry)
        selection_widget_rect == desktop_to_widget_rect(s.virtual_geometry, s.selection_rect)
        nothing == [source_rect |-> QRectNull, translate |-> Pt(0, 0), drawn |-> <<>>]
    IN  IF ~IsValid(s.selection_rect)
        THEN nothing
        ELSE IF IsEmpty(base_pixmap)
        THEN nothing
        ELSE [source_rect |-> base_pixmap,
              translate |-> Pt(0 - selection_widget_rect.x1, 0 - selection_widget_rect.y1),
              drawn |-> s.annotations]

\* get_selected_pixmap_with_annotations() returns a null pixmap
selected_pixmap_is_null(s) ==
    \/ ~IsValid(s.selection_rect)
    \/ IsEmpty(extract_rect_from_pixmap(s.background_screenshot, s.selection_rect,
                                        s.virtual_geometry))

(***************************************************************************)
(* Rendering (src/drawing_utils.py, src/annotations.py).  What a painter    *)
(* is asked to draw is a sequence of strokes, each with the pass it belongs *)
(* to, the pen's color and width, and the annotation drawn.                 *)
(***************************************************************************)
Stroke(pass, color, width, shape) ==
    [pass |-> pass, color |-> color, width |-> width, shape |-> shape]

\* DrawStyle.outline_thickness
outline_thickness(st) == st.thickness + OUTLINE_THICKNESS_OFFSET

\* draw_with_outline that draws the main shape first
draw_with_outline_main_first(st, shape) ==
    <<Stroke("main", rgb(st.color), st.thickness, shape),
      Stroke("outline", outline_color(st), outline_thickness(st), shape)>>

\* DrawHelper.draw_with_outline: the outline pen, then the main pen
draw_with_outline(st, shape) ==
    <<Stroke("outline", outline_color(st), outline_thickness(st), shape),
      Stroke("main", rgb(st.color), st.thickness, shape)>>

\* DrawHelper.draw_text_with_outline: the text at the eight neighbouring
\* offsets with a pen of width 1 in the outline color, then the text itself
draw_text_with_outline(st, shape) ==
    <<Stroke("outline", outline_color(st), 1, shape),
      Stroke("main", rgb(st.color), 1, shape)>>

\* the draw method of an annotation
annotation_draw(s, annotation) ==
    IF annotation.type = "ARROW"
    THEN IF SquaredLength(annotation.start, annotation.end)
                < MIN_ARROW_LENGTH * MIN_ARROW_LENGTH
         THEN <<>>
         ELSE draw_with_outline(style_of(s, annotation), annotation)
    ELSE IF annotation.type = "RECTANGLE"
    THEN draw_with_outline(style_of(s, annotation), annotation)
    ELSE IF annotation.text # <<>>
    THEN draw_text_with_outline(style_of(s, annotation), annotation)
    ELSE <<>>

\* for annotation in list: annotation.draw(painter), from position i on
RECURSIVE draw_from(_, _, _)
draw_from(s, list, i) ==
    IF i > Len(list)
    THEN <<>>
    ELSE annotation_draw(s, list[i]) \o draw_from(s, list, i + 1)

\* the annotation layer of paintEvent: the annotations, then the preview of
\* the shape being dragged
paint_annotations(s) ==
    LET preview ==
            IF ~s.is_drawing
            THEN <<>>
            ELSE IF s.annotation_mode = "RECTANGLE" /\ IsValid(s.current_rect)
            THEN annotation_draw(s, RectangleAnnotation(s.current_rect,
                                                        StyleCopy(s.current_style)))
            ELSE IF s.annotation_mode = "ARROW" /\ s.current_arrow_end # QPointNull
            THEN annotation_draw(s, ArrowAnnotation(s.draw_start_point, s.current_arrow_end,
                                                    StyleCopy(s.current_style)))
            ELSE <<>>
    IN  IF s.is_exiting
        THEN <<>>
        ELSE IF s.selection_complete
        THEN draw_from(s, s.annotations, 1) \o preview
        ELSE <<>>

\* what get_selected_pixmap_with_annotations paints onto the cropped image
export_strokes(s) ==
    draw_from(s, get_selected_pixmap_with_annotations(s).drawn, 1)

\* prepare_exit without the test of the flag
prepare_exit_unguarded(s) ==
    finish_text_editing([s EXCEPT !.is_exiting = TRUE, !.exit_runs = @ + 1])

\* the flag is set before the text is committed and before processEvents()
\* lets other handlers run
prepare_exit(s) ==
    IF s.is_exiting
    THEN s
    ELSE finish_text_editing([s EXCEPT !.is_exiting = TRUE, !.exit_runs = @ + 1])

\* closeEvent runs prepare_exit again before the widget closes
closeEvent(s) == prepare_exit(s)

exit_application(s) ==
    [closeEvent(prepare_exit(s)) EXCEPT !.app_quit = TRUE]

exit_with_focus_restore(s) ==
    [closeEvent(prepare_exit(s)) EXCEPT !.app_quit = TRUE]

restore_overlay(s) ==
    IF s.is_exiting
    THEN s
    ELSE [s EXCEPT !.is_exiting = FALSE]

\* filename_given: the save dialog returned a file name (it was not cancelled)
show_save_dialog(s, filename_given) ==
    LET s1 == prepare_exit(s)
    IN  IF filename_given
        THEN exit_application(s1)
        ELSE restore_overlay(s1)

save_screenshot(s, filename_given) ==
    IF ~IsValid(s.selection_rect)
    THEN s
    ELSE IF selected_pixmap_is_null(s)
         THEN s
         ELSE show_save_dialog(s, filename_given)

copy_to_clipboard(s) ==
    IF ~IsValid(s.selection_rect)
    THEN s
    ELSE IF selected_pixmap_is_null(s)
         THEN s
         ELSE exit_application(prepare_exit(s))

(***************************************************************************)
(* Keyboard handling.  A key event is [key, ctrl, text].                   *)
(***************************************************************************)
switch_mode(s, mode) == set_annotation_mode(finish_text_editing(s), mode)

cycle_color(s) ==
    LET i == (s.current_color_index + 1) % Len(colors)
    IN  [s EXCEPT !.current_color_index = i, !.current_style.color = colors[i + 1]]

\* handle_text_input whose last branch tests only that the text is not empty
handle_text_input_unfiltered(s, key, text) ==
    LET pos == s.text_cursor_position
        cur == s.current_text
    IN  IF key \in {"Return", "Enter"}
        THEN finish_text_editing(s)
        ELSE IF key = "Escape"
        THEN [s EXCEPT !.is_text_editing = FALSE, !.current_text = <<>>]
        ELSE IF key = "Backspace" /\ pos > 0
        THEN [s EXCEPT !.current_text = SubSeq(cur, 1, pos - 1) \o SubSeq(cur, pos + 1, Len(cur)),
                       !.text_cursor_position = pos - 1]
        ELSE IF key = "Delete" /\ pos < Len(cur)
        THEN [s EXCEPT !.current_text = SubSeq(cur, 1, pos) \o SubSeq(cur, pos + 2, Len(cur))]
        ELSE IF key = "Left"
        THEN [s EXCEPT !.text_cursor_position = IF pos - 1 > 0 THEN pos - 1 ELSE 0]
        ELSE IF key = "Right"
        THEN [s EXCEPT !.text_cursor_position = IF pos + 1 < Len(cur) THEN pos + 1 ELSE Len(cur)]
        ELSE IF text # <<>>
        THEN [s EXCEPT !.current_text = SubSeq(cur, 1, pos) \o text \o SubSeq(cur, pos + 1, Len(cur)),
                       !.text_cursor_position = pos + Len(text)]
        ELSE s

handle_text_input(s, key, text) ==
    LET pos == s.text_cursor_position
        cur == s.current_text
    IN  IF key \in {"Return", "Enter"}
        THEN finish_text_editing(s)
        ELSE IF key = "Escape"
        THEN [s EXCEPT !.is_text_editing = FALSE, !.current_text = <<>>]
        ELSE IF key = "Backspace" /\ pos > 0
        THEN [s EXCEPT !.current_text = SubSeq(cur, 1, pos - 1) \o SubSeq(cur, pos + 1, Len(cur)),
                       !.text_cursor_position = pos - 1]
        ELSE IF key = "Delete" /\ pos < Len(cur)
        THEN [s EXCEPT !.current_text = SubSeq(cur, 1, pos) \o SubSeq(cur, pos + 2, Len(cur))]
        ELSE IF key = "Left"
        THEN [s EXCEPT !.text_cursor_position = IF pos - 1 > 0 THEN pos - 1 ELSE 0]
        ELSE IF key = "Right"
        THEN [s EXCEPT !.text_cursor_position = IF pos + 1 < Len(cur) THEN pos + 1 ELSE Len(cur)]
        ELSE IF text # <<>> /\ isprintable(text)
        THEN [s EXCEPT !.current_text = SubSeq(cur, 1, pos) \o text \o SubSeq(cur, pos + 1, Len(cur)),
                       !.text_cursor_position = pos + Len(text)]
        ELSE s

\* the first entry of the shortcut table that matches, in the table's order
\* keyPressEvent that looks Escape up in the shortcut table before it tests
\* whether a text edit is active
keyPressEvent_escape_first(s, k, filename_given) ==
    IF s.is_exiting
    THEN s
    ELSE IF k.key = "Escape" THEN exit_with_focus_restore(s)
    ELSE IF s.is_text_editing
    THEN handle_text_input(s, k.key, k.text)
    ELSE IF k.key = "S" /\ k.ctrl THEN save_screenshot(s, filename_given)
    ELSE IF k.key = "C" /\ k.ctrl THEN copy_to_clipboard(s)
    ELSE IF k.key = "Z" /\ k.ctrl THEN undo(s)
    ELSE IF k.key = "R" /\ k.ctrl THEN redo(s)
    ELSE IF k.key = "1" THEN switch_mode(s, "ARROW")
    ELSE IF k.key = "2" THEN switch_mode(s, "RECTANGLE")
    ELSE IF k.key = "3" THEN switch_mode(s, "TEXT")
    ELSE IF k.key = "4" THEN cycle_color(s)
    ELSE s

keyPressEvent(s, k, filename_given) ==
    IF s.is_exiting
    THEN s
    ELSE IF s.is_text_editing
    THEN handle_text_input(s, k.key, k.text)
    ELSE IF k.key = "S" /\ k.ctrl THEN save_screenshot(s, filename_given)
    ELSE IF k.key = "C" /\ k.ctrl THEN copy_to_clipboard(s)
    ELSE IF k.key = "Z" /\ k.ctrl THEN undo(s)
    ELSE IF k.key = "R" /\ k.ctrl THEN redo(s)
    ELSE IF k.key = "Escape" THEN exit_with_focus_restore(s)
    ELSE IF k.key = "1" THEN switch_mode(s, "ARROW")
    ELSE IF k.key = "2" THEN switch_mode(s, "RECTANGLE")
    ELSE IF k.key = "3" THEN switch_mode(s, "TEXT")
    ELSE IF k.key = "4" THEN cycle_color(s)
    ELSE s

(***************************************************************************)
(* Environment: the events the window system delivers                       *)
(***************************************************************************)
\* positions of pointer-down and pointer-up, widget coordinates
Points == {Pt(0, 0), Pt(20, 20)}
\* positions of pointer moves: a drag from (0, 0) to (10, 10) selects 11 x 11
\* and leaves (20, 20) outside, a drag from (20, 20) to (10, 10) selects 9 x 9
MovePoints == {Pt(0, 0), Pt(10, 10)}
Buttons == {"Left", "Right"}
\* the virtual geometry: a desktop whose top-left corner is not the origin
Geometries == {QRectPS(Pt(-5, 7), 40, 40)}

Key(k, c, t) == [key |-> k, ctrl |-> c, text |-> t]

\* key events; the text of a control key is its (unprintable) control character
KeyEvents ==
    {Key("Z", TRUE, <<"\\x1a">>), Key("R", TRUE, <<"\\x12">>),
     Key("S", TRUE, <<"\\x13">>), Key("C", TRUE, <<"\\x03">>),
     Key("Escape", FALSE, <<"\\x1b">>),
     Key("1", FALSE, <<"1">>), Key("3", FALSE, <<"3">>),
     Key("Return", FALSE, <<"\\r">>), Key("Space", FALSE, <<" ">>)}

DeepKeyEvents ==
    {Key("Z", TRUE, <<"\\x1a">>), Key("R", TRUE, <<"\\x12">>), Key("1", FALSE, <<"1">>)}

\* op: the handler; branch: the branch it took; cut: the handler pushed a
\* snapshot while the history index was not at the end of the log; changed:
\* the handler changed the overlay
Event(op, branch, cut, changed) ==
    [op |-> op, branch |-> branch, cut |-> cut, changed |-> changed]

\* branches in which a handler returns without touching the overlay
Untouched == {"other_button", "none", "unbound"}

\* ev after a handler took the given branch
Delivered(s, t, op, branch) ==
    IF branch \in Untouched
    THEN ev
    ELSE Event(op, branch,
               branch \in {"draw_commit", "text_commit"}
                   /\ s.history_index < Len(s.annotation_history) - 1,
               t # s)

\* the branch of mousePressEvent an event takes
PressBranch(s, button, widget_pos) ==
    IF s.is_exiting THEN "ignored"
    ELSE IF button # "Left" THEN "other_button"
    ELSE IF ~s.selection_complete THEN "first"
    ELSE IF ~Contains(desktop_to_widget_rect(s.virtual_geometry, s.selection_rect), widget_pos)
         THEN IF ~s.is_text_editing THEN "outside"
              ELSE IF strip(s.current_text) # <<>> THEN "outside_text"
              ELSE "outside_blank"
    ELSE "inside"

\* the branch of mouseMoveEvent an event takes
MoveBranch(s) ==
    IF s.is_exiting THEN "ignored"
    ELSE IF s.is_selecting THEN "selecting"
    ELSE IF s.is_drawing /\ s.annotation_mode \in {"ARROW", "RECTANGLE"} THEN "drawing"
    ELSE "none"

\* the branch of mouseReleaseEvent an event takes
ReleaseBranch(s, button, widget_pos) ==
    IF s.is_exiting THEN "ignored"
    ELSE IF button # "Left" THEN "other_button"
    ELSE IF s.is_selecting
         THEN IF complete_selection(s).selection_complete THEN "sel_ok" ELSE "sel_rejected"
    ELSE IF s.is_drawing
         THEN IF drawn_annotation(s, widget_pos) # <<>> THEN "draw_commit" ELSE "draw_rejected"
    ELSE "none"

\* the branch of keyPressEvent an event takes
KeyBranch(s, k) ==
    IF s.is_exiting THEN "ignored"
    ELSE IF s.is_text_editing
         THEN IF k.key \in {"Return", "Enter"} /\ strip(s.current_text) # <<>>
              THEN "text_commit"
              ELSE "text_input"
    ELSE IF k.key = "S" /\ k.ctrl THEN "save"
    ELSE IF k.key = "C" /\ k.ctrl THEN "copy"
    ELSE IF k.key = "Z" /\ k.ctrl THEN "undo"
    ELSE IF k.key = "R" /\ k.ctrl THEN "redo"
    ELSE IF k.key = "Escape" THEN "exit"
    ELSE IF k.key \in {"1", "2", "3"} THEN "mode"
    ELSE IF k.key = "4" THEN "color"
    ELSE "unbound"

\* the branch of wheelEvent an event takes
WheelBranch(s, delta) ==
    IF s.is_exiting THEN "ignored"
    ELSE IF ~s.selection_complete THEN "incomplete"
    ELSE IF delta > 0 THEN "up"
    ELSE "down"

\* the model's bounds on the lists an event may build
WithinBounds(t, maxAnn) ==
    /\ Len(t.annotations) <= maxAnn
    /\ Len(t.current_text) <= MaxText

(***************************************************************************)
(* Init: ScreenshotOverlay.__init__                                        *)
(***************************************************************************)
\* the overlay after __init__ ran with the availability tests finding av, the
\* screens scr and the capture ending in outcome
Construct(av, scr, outcome) ==
    LET geometry == get_virtual_geometry(ClsUnset, av, scr)
        capture == capture_all_screens(geometry.cls, av, scr, outcome)
    IN  /\ available = av
        /\ screens = scr
        /\ backends = capture.cls.backends
        /\ active_backend = capture.cls.active_backend
        /\ probe_count = capture.cls.probe_count
        /\ capture_calls = capture.cls.capture_calls
        /\ captured = capture.result
        /\ temp_files = capture.cls.temp_files
        /\ virtual_geometry = geometry.result
        /\ background_screenshot = capture.result
        /\ selection_rect = QRectNull
        /\ is_selecting = FALSE
        /\ selection_start = QPointNull
        /\ selection_complete = FALSE
        /\ annotation_mode = "NONE"
        /\ current_color_index = 0
        /\ current_style = DrawStyle(3, colors[1])
        /\ annotations = <<>>
        /\ annotation_history = <<>>
        /\ history_index = -1
        /\ shared_snapshots = {}
        /\ is_drawing = FALSE
        /\ draw_start_point = QPointNull
        /\ current_rect = QRectNull
        /\ current_arrow_end = QPointNull
        /\ is_text_editing = FALSE
        /\ text_position = QPointNull
        /\ current_text = <<>>
        /\ text_cursor_position = 0
        /\ is_exiting = FALSE
        /\ exit_runs = 0
        /\ app_quit = FALSE
        /\ ev = Event("init", "", FALSE, FALSE)

\* an X11 session: Qt Native is available, one screen, the capture succeeds
Init ==
    \E g \in Geometries : Construct(<<TRUE, FALSE, FALSE, FALSE, FALSE>>, <<g>>, "ok")

\* every assignment of availability flags to the five backends
Availabilities == [1..5 -> BOOLEAN]
\* no screen, or two screens side by side
ScreenSets == {<<>>, <<QRectPS(Pt(-5, 7), 40, 40), QRectPS(Pt(35, 0), 20, 20)>>}

\* any session: whatever the availability tests, the screens and the capture
InitCapture ==
    \E av \in Availabilities, scr \in ScreenSets, outcome \in CaptureOutcomes :
        Construct(av, scr, outcome)

(***************************************************************************)
(* Actions: one per event handler                                          *)
(***************************************************************************)
\* the overlay becomes t and ev records the event
Deliver(t, op, branch) ==
    /\ ~app_quit
    /\ Becomes(t)
    /\ ev' = Delivered(Self, t, op, branch)
    /\ UNCHANGED <<available, screens, backends, active_backend, probe_count,
                   capture_calls, captured, temp_files>>

\* the same within the model's bounds
Handle(t, op, branch, maxAnn) ==
    /\ WithinBounds(t, maxAnn)
    /\ Deliver(t, op, branch)

MousePress(button, p, maxAnn) ==
    Handle(mousePressEvent(Self, button, p), "press", PressBranch(Self, button, p), maxAnn)

MouseMove(p) ==
    Handle(mouseMoveEvent(Self, p), "move", MoveBranch(Self), Len(annotations))

MouseRelease(button, p, maxAnn) ==
    Handle(mouseReleaseEvent(Self, button, p), "release", ReleaseBranch(Self, button, p), maxAnn)

KeyPress(k, filename_given, maxAnn) ==
    Handle(keyPressEvent(Self, k, filename_given), "key", KeyBranch(Self, k), maxAnn)

Wheel(delta) ==
    Handle(wheelEvent(Self, delta), "wheel", WheelBranch(Self, delta), Len(annotations))

\* a key event of the text specification, whose text buffers are longer
KeyPressTyped(k) ==
    LET t == keyPressEvent(Self, k, FALSE)
    IN  /\ Len(t.annotations) <= MaxAnnotations
        /\ Len(t.current_text) <= MaxTyped
        /\ Deliver(t, "key", KeyBranch(Self, k))

\* the results of the save dialog an event can meet: only Ctrl+S opens it
DialogResults(k) == IF k.key = "S" /\ k.ctrl THEN BOOLEAN ELSE {FALSE}

\* angleDelta().y() of one notch of the wheel, away from and towards the user
WheelDeltas == {120, -120}

\* the general specification: every pointer and key event, short lists
Next ==
    \/ \E b \in Buttons, p \in Points : MousePress(b, p, MaxAnnotations)
    \/ \E p \in MovePoints : MouseMove(p)
    \/ \E b \in Buttons, p \in Points : MouseRelease(b, p, MaxAnnotations)
    \/ \E k \in KeyEvents : \E f \in DialogResults(k) : KeyPress(k, f, MaxAnnotations)

Spec == Init /\ [][Next]_vars

\* the one drag of the deep-history specification: every arrow is the same;
\* a pointer-down at DeepOut is outside the selection that drag makes
DeepDown == Pt(0, 0)
DeepUp == Pt(20, 20)
DeepOut == Pt(30, 30)

\* the deep-history specification: one selection, arrows, undo and redo, with
\* annotation lists longer than MAX_HISTORY
NextDeep ==
    \/ \E p \in {DeepDown, DeepOut} : MousePress("Left", p, MaxDeepAnnotations)
    \/ MouseMove(DeepUp)
    \/ MouseRelease("Left", DeepUp, MaxDeepAnnotations)
    \/ \E k \in DeepKeyEvents : KeyPress(k, FALSE, MaxDeepAnnotations)

SpecDeep == Init /\ [][NextDeep]_vars

\* the drawing specification: drags whose arrows and rectangles lie on both
\* sides of the commit gates (lengths 10, 7.07.., 9.84..; sizes 6 x 6, 10 x 5)
DrawDowns == {Pt(0, 0), Pt(6, 8)}
DrawUps == {Pt(0, 0), Pt(6, 8), Pt(5, 5), Pt(9, 4)}
DrawKeyEvents ==
    {Key("Z", TRUE, <<"\\x1a">>), Key("R", TRUE, <<"\\x12">>),
     Key("1", FALSE, <<"1">>), Key("2", FALSE, <<"2">>)}

NextDraw ==
    \/ \E p \in DrawDowns : MousePress("Left", p, MaxAnnotations)
    \/ \E p \in DrawUps \cup {DeepUp} : MouseMove(p)
    \/ \E p \in DrawUps : MouseRelease("Left", p, MaxAnnotations)
    \/ \E k \in DrawKeyEvents : KeyPress(k, FALSE, MaxAnnotations)

SpecDraw == Init /\ [][NextDraw]_vars

\* a static method of MultiMonitorScreenshot returned r: the class attributes
\* become r.cls, the overlay is not involved
Called(r, op, branch, result) ==
    /\ Len(r.cls.capture_calls) <= MaxCaptures
    /\ backends' = r.cls.backends
    /\ active_backend' = r.cls.active_backend
    /\ probe_count' = r.cls.probe_count
    /\ capture_calls' = r.cls.capture_calls
    /\ temp_files' = r.cls.temp_files
    /\ captured' = result
    /\ ev' = Event(op, branch, FALSE, r.cls # Cls)
    /\ UNCHANGED <<available, screens>>
    /\ Becomes(Self)

CallGetVirtualGeometry ==
    Called(get_virtual_geometry(Cls, available, screens),
           "get_virtual_geometry", "", captured)

\* the branch of capture_all_screens a call takes
CaptureBranch(r) ==
    IF r.cls.active_backend = 0 THEN "no_backend"
    ELSE IF r.cls.capture_calls = Cls.capture_calls THEN "no_geometry"
    ELSE IF r.result = Raised THEN "raised"
    ELSE IF r.result = NullPixmap THEN "failed"
    ELSE "captured"

CallCaptureAllScreens(outcome) ==
    LET r == capture_all_screens(Cls, available, screens, outcome)
    IN  Called(r, "capture_all_screens", CaptureBranch(r),
               IF r.result = Raised THEN captured ELSE r.result)

CallGetBackendInfo ==
    Called(get_backend_info(Cls, available), "get_backend_info", "", captured)

\* a tool is installed or removed, the session type changes
AvailabilityChanges(i) ==
    /\ available' = [available EXCEPT ![i] = ~available[i]]
    /\ UNCHANGED <<screens, backends, active_backend, probe_count, capture_calls,
                   captured, temp_files, ev>>
    /\ Becomes(Self)

\* the capture specification: any session, one selection drag
NextCapture ==
    \/ MousePress("Left", DeepDown, MaxAnnotations)
    \/ MouseMove(DeepUp)
    \/ MouseRelease("Left", DeepUp, MaxAnnotations)

SpecCapture == InitCapture /\ [][NextCapture]_vars

\* the backend specification: the static methods are called again while the
\* availability of the backends changes
NextBackend ==
    \/ CallGetVirtualGeometry
    \/ \E outcome \in CaptureEndings : CallCaptureAllScreens(outcome)
    \/ CallGetBackendInfo
    \/ \E i \in 1..5 : AvailabilityChanges(i)

SpecBackend == InitCapture /\ [][NextBackend]_vars

\* the export specification: drags that leave the window on its top-left and
\* on its bottom-right side while the button is held, arrows, copy and save
ExportGeometries == {QRectPS(Pt(-5, 7), 40, 40), QRectPS(Pt(0, 0), 24, 24)}
ExportDowns == {Pt(5, 5), Pt(12, 12)}
ExportMoves == {Pt(-3, -3), Pt(30, 30)}
ExportUp == Pt(30, 30)
ExportKeyEvents ==
    {Key("S", TRUE, <<"\\x13">>), Key("C", TRUE, <<"\\x03">>), Key("1", FALSE, <<"1">>)}

InitExport ==
    \E g \in ExportGeometries : Construct(<<TRUE, FALSE, FALSE, FALSE, FALSE>>, <<g>>, "ok")

NextExport ==
    \/ \E p \in ExportDowns : MousePress("Left", p, MaxAnnotations)
    \/ \E p \in ExportMoves : MouseMove(p)
    \/ MouseRelease("Left", ExportUp, MaxAnnotations)
    \/ \E k \in ExportKeyEvents : \E f \in DialogResults(k) : KeyPress(k, f, MaxAnnotations)

SpecExport == InitExport /\ [][NextExport]_vars

\* the text specification: one selection, Text mode, typing with blanks and
\* caret moves, Return
TextKeyEvents ==
    {Key("3", FALSE, <<"3">>), Key("A", FALSE, <<"a">>), Key("Space", FALSE, <<" ">>),
     Key("Left", FALSE, <<>>), Key("Backspace", FALSE, <<"\\b">>),
     Key("Return", FALSE, <<"\\r">>)}

NextText ==
    \/ MousePress("Left", DeepDown, MaxAnnotations)
    \/ MouseMove(DeepUp)
    \/ MouseRelease("Left", DeepUp, MaxAnnotations)
    \/ \E k \in TextKeyEvents : KeyPressTyped(k)

SpecText == Init /\ [][NextText]_vars

\* the second-click specification: one selection, text mode, presses at two
\* points inside the selection, typing
TextDowns == {DeepDown, Pt(6, 8)}
RetextKeyEvents ==
    {Key("3", FALSE, <<"3">>), Key("Space", FALSE, <<" ">>)}

NextRetext ==
    \/ \E p \in TextDowns : MousePress("Left", p, MaxAnnotations)
    \/ MouseMove(DeepUp)
    \/ MouseRelease("Left", DeepUp, MaxAnnotations)
    \/ \E k \in RetextKeyEvents : KeyPressTyped(k)

SpecRetext == Init /\ [][NextRetext]_vars

\* The exit specification.  _prepare_exit calls QApplication.processEvents(),
\* which delivers the events that wait in the queue to their handlers before
\* the handler that asked for the exit goes on.  Here that handler is two
\* steps, up to the event pump and from it, and every event of the
\* specification can arrive between the two.
ExitKeyEvents ==
    {Key("3", FALSE, <<"3">>), Key("Escape", FALSE, <<"\\x1b">>),
     Key("C", TRUE, <<"\\x03">>)}

\* the key asks for an exit that reaches _prepare_exit's body
StartsExit(s, k) ==
    \/ KeyBranch(s, k) = "exit"
    \/ /\ KeyBranch(s, k) = "copy"
       /\ IsValid(s.selection_rect)
       /\ ~selected_pixmap_is_null(s)

\* a key event; the handler of one that starts the exit runs up to the event
\* pump of _prepare_exit
ExitKeyPress(k) ==
    IF StartsExit(Self, k)
    THEN Deliver(prepare_exit(Self), "key", "exit_pumping")
    ELSE KeyPress(k, FALSE, MaxAnnotations)

\* the window system asks the window to close: closeEvent runs _prepare_exit,
\* up to its event pump when the body runs
CloseRequested ==
    Deliver(closeEvent(Self), "close", IF is_exiting THEN "ignored" ELSE "exit_pumping")

\* the handler that pumped events goes on: close(), which raises closeEvent,
\* and QApplication.quit()
ExitCompletes ==
    /\ is_exiting
    /\ Deliver(exit_application(Self), "exit", "quit")

NextExit ==
    \/ MousePress("Left", DeepDown, MaxAnnotations)
    \/ MouseMove(DeepUp)
    \/ MouseRelease("Left", DeepUp, MaxAnnotations)
    \/ \E d \in WheelDeltas :
          /\ Wheel(d)
          /\ current_style'.thickness \in 3..(3 + MaxStyleSteps)
    \/ \E k \in ExitKeyEvents : ExitKeyPress(k)
    \/ CloseRequested
    \/ ExitCompletes

SpecExit == Init /\ [][NextExit]_vars

\* the keyboard specification: one selection, text mode, every shortcut key
\* and keys without printable text, the color key within MaxStyleSteps of
\* the initial color
KeyboardKeyEvents ==
    {Key("3", FALSE, <<"3">>), Key("4", FALSE, <<"4">>),
     Key("Left", FALSE, <<>>), Key("Backspace", FALSE, <<"\\b">>),
     Key("Return", FALSE, <<"\\r">>), Key("Escape", FALSE, <<"\\x1b">>),
     Key("Z", TRUE, <<"\\x1a">>), Key("R", TRUE, <<"\\x12">>),
     Key("S", TRUE, <<"\\x13">>), Key("C", TRUE, <<"\\x03">>),
     Key("Tab", FALSE, <<"\\t">>), Key("F1", FALSE, <<>>)}

KeyboardKeyPress(k, filename_given) ==
    /\ KeyPress(k, filename_given, MaxAnnotations)
    /\ current_color_index' <= MaxStyleSteps

NextKeyboard ==
    \/ MousePress("Left", DeepDown, MaxAnnotations)
    \/ MouseMove(DeepUp)
    \/ MouseRelease("Left", DeepUp, MaxAnnotations)
    \/ \E k \in KeyboardKeyEvents : \E f \in DialogResults(k) : KeyboardKeyPress(k, f)

SpecKeyboard == Init /\ [][NextKeyboard]_vars

\* the click specification: one selection, every annotation mode, presses
\* inside the selection
ClickKeyEvents ==
    {Key("1", FALSE, <<"1">>), Key("2", FALSE, <<"2">>), Key("3", FALSE, <<"3">>)}

NextClick ==
    \/ MousePress("Left", DeepDown, MaxAnnotations)
    \/ MouseMove(DeepUp)
    \/ MouseRelease("Left", DeepUp, MaxAnnotations)
    \/ \E k \in ClickKeyEvents : KeyPress(k, FALSE, MaxAnnotations)

SpecClick == Init /\ [][NextClick]_vars

StyleKeyEvents ==
    {Key("S", TRUE, <<"\\x13">>), Key("Escape", FALSE, <<"\\x1b">>),
     Key("1", FALSE, <<"1">>)}

\* the style specification: one selection, the wheel, arrows, save, exit
NextStyle ==
    \/ MousePress("Left", DeepDown, MaxAnnotations)
    \/ MouseMove(DeepUp)
    \/ MouseRelease("Left", DeepUp, MaxAnnotations)
    \/ \E d \in WheelDeltas : Wheel(d)
    \/ \E k \in StyleKeyEvents : \E f \in DialogResults(k) : KeyPress(k, f, MaxAnnotations)

SpecStyle == Init /\ [][NextStyle]_vars

\* the frame specification: one selection, arrows and rectangles, the wheel
\* and the color key within MaxStyleSteps of the initial style, undo and redo
FrameKeyEvents ==
    {Key("1", FALSE, <<"1">>), Key("2", FALSE, <<"2">>), Key("4", FALSE, <<"4">>),
     Key("Z", TRUE, <<"\\x1a">>), Key("R", TRUE, <<"\\x12">>)}

NextFrame ==
    \/ MousePress("Left", DeepDown, MaxAnnotations)
    \/ MouseMove(DeepUp)
    \/ MouseRelease("Left", DeepUp, MaxAnnotations)
    \/ \E d \in WheelDeltas :
          /\ Wheel(d)
          /\ current_style'.thickness \in 3..(3 + MaxStyleSteps)
    \/ \E k \in FrameKeyEvents :
          /\ KeyPress(k, FALSE, MaxAnnotations)
          /\ current_color_index' <= MaxStyleSteps

SpecFrame == Init /\ [][NextFrame]_vars

\* the rendering specification: one selection, arrows and rectangles of
\* several thicknesses, copy
RenderKeyEvents ==
    {Key("1", FALSE, <<"1">>), Key("2", FALSE, <<"2">>), Key("C", TRUE, <<"\\x03">>)}

NextRender ==
    \/ MousePress("Left", DeepDown, MaxRendered)
    \/ MouseMove(DeepUp)
    \/ MouseRelease("Left", DeepUp, MaxRendered)
    \/ \E d \in WheelDeltas :
          /\ Wheel(d)
          /\ current_style'.thickness \in 3..(3 + MaxStyleSteps)
    \/ \E k \in RenderKeyEvents : KeyPress(k, FALSE, MaxRendered)

SpecRender == Init /\ [][NextRender]_vars

\* the commit-gate specification: one selection, drags and texts on both
\* sides of the three gates, the three modes switched at any time
GateKeyEvents ==
    {Key("1", FALSE, <<"1">>), Key("2", FALSE, <<"2">>), Key("3", FALSE, <<"3">>),
     Key("Space", FALSE, <<" ">>)}

NextGate ==
    \/ MousePress("Left", DeepDown, MaxAnnotations)
    \/ MouseMove(DeepUp)
    \/ \E p \in DrawUps : MouseRelease("Left", p, MaxAnnotations)
    \/ \E k \in GateKeyEvents : KeyPressTyped(k)

SpecGate == Init /\ [][NextGate]_vars

\* the palette specification: one selection, rectangles in every color
PaletteKeyEvents == {Key("2", FALSE, <<"2">>), Key("4", FALSE, <<"4">>)}

NextPalette ==
    \/ MousePress("Left", DeepDown, MaxAnnotations)
    \/ MouseMove(DeepUp)
    \/ MouseRelease("Left", DeepUp, MaxAnnotations)
    \/ \E k \in PaletteKeyEvents : KeyPress(k, FALSE, MaxAnnotations)

SpecPalette == Init /\ [][NextPalette]_vars

(***************************************************************************)
(* Properties                                                              *)
(***************************************************************************)
Min(a, b) == IF a < b THEN a ELSE b
Max(a, b) == IF a > b THEN a ELSE b

\* the last event was a left pointer-down outside a Complete selection
PressedOutside(branch) == ev.op = "press" /\ ev.branch = branch

\* some snapshot of the history log holds a Text annotation
HistoryHoldsText ==
    \E i \in 1..Len(annotation_history) :
        \E j \in 1..Len(annotation_history[i]) : annotation_history[i][j].type = "TEXT"

\* C1 as stated: after a left pointer-down outside a Complete selection, no
\* text edit being in progress, the annotation list is empty and the history
\* log is exactly one empty snapshot with index 0.
C1_AsStated ==
    PressedOutside("outside") =>
        /\ annotations = <<>>
        /\ annotation_history = << <<>> >>
        /\ history_index = 0

\* C1 amended: after a left pointer-down outside a Complete selection, no text
\* edit being in progress, the annotation list is empty and the history log is
\* empty with index -1, the selection is being dragged anew; the log becomes
\* the single empty snapshot with index 0 when the new selection completes.
C1_ResetClearsThenSeedsOnComplete ==
    /\ PressedOutside("outside") =>
        /\ annotations = <<>>
        /\ annotation_history = <<>>
        /\ history_index = -1
        /\ ~selection_complete
        /\ is_selecting
    /\ (ev.op = "release" /\ ev.branch = "sel_ok") =>
        /\ annotation_history = << <<>> >>
        /\ history_index = 0

C1_Witness ==
    /\ PressedOutside("outside")
    /\ ev.changed
    /\ annotations = <<>>
    /\ annotation_history = <<>>

\* C2: after a left pointer-down outside a Complete selection that arrives
\* while a text edit with a non-blank buffer is active, the annotation list is
\* empty and no history snapshot holds the text annotation.
C2_TextCommittedBeforeReset ==
    PressedOutside("outside_text") =>
        /\ annotations = <<>>
        /\ ~HistoryHoldsText

\* C3: a history push leaves the log with min(index + 2, MAX_HISTORY) entries,
\* the index at the last entry and that entry the snapshot just pushed; when
\* the push exceeds MAX_HISTORY the oldest entry is evicted, the others keep
\* their order, and the index stays on the pushed snapshot.
C3_PushEvictsOldest ==
    [][ev'.branch = "draw_commit" =>
          /\ Len(annotation_history') = Min(history_index + 2, MAX_HISTORY)
          /\ history_index' = Len(annotation_history') - 1
          /\ annotation_history'[Len(annotation_history')] = annotations'
          /\ history_index + 2 > MAX_HISTORY =>
                /\ annotation_history' = Append(Tail(annotation_history), annotations')
                /\ history_index' = history_index
                /\ Len(annotation_history') = MAX_HISTORY]_vars

C3_Witness ==
    /\ ev.branch = "draw_commit"
    /\ Len(annotations) > MAX_HISTORY
    /\ Len(annotation_history) = MAX_HISTORY
    /\ history_index = MAX_HISTORY - 1

\* C4: in every reachable state the history log has at most MAX_HISTORY
\* entries and, when it is not empty, 0 <= history_index <= len - 1.
C4_HistoryBounds ==
    /\ Len(annotation_history) <= MAX_HISTORY
    /\ annotation_history # <<>> =>
          (0 <= history_index /\ history_index <= Len(annotation_history) - 1)

\* a full log whose first snapshot is no longer the empty seed, index at 0
C4_Witness ==
    /\ Len(annotation_history) = MAX_HISTORY
    /\ annotation_history[1] # <<>>
    /\ history_index = 0

\* C5: undo at index 0 and redo at the last index change neither the
\* annotation list nor the log nor the index; an undo elsewhere steps the index
\* down by exactly one, onto that snapshot, and never below 0; a redo
\* elsewhere steps it up by one.
C5_UndoRedoBoundaries ==
    [][/\ ev'.branch = "undo" =>
            IF history_index > 0
            THEN /\ history_index' = history_index - 1
                 /\ history_index' >= 0
                 /\ annotations' = annotation_history[history_index' + 1]
                 /\ annotation_history' = annotation_history
            ELSE UNCHANGED <<annotations, annotation_history, history_index>>
       /\ ev'.branch = "redo" =>
            IF history_index < Len(annotation_history) - 1
            THEN /\ history_index' = history_index + 1
                 /\ annotations' = annotation_history[history_index' + 1]
                 /\ annotation_history' = annotation_history
            ELSE UNCHANGED <<annotations, annotation_history, history_index>>]_vars

\* an undo that found the index at 0 of a log with several snapshots
C5_Witness ==
    /\ ev.branch = "undo"
    /\ ~ev.changed
    /\ history_index = 0
    /\ Len(annotation_history) > 1

\* C6: a push made while the index is not at the end discards the snapshots
\* after the index and appends the new one: the log is the old log up to the
\* index followed by the new snapshot, the index is at the last entry (so
\* redo has nothing to step to).
C6_PushCutsRedoBranch ==
    [][ev'.branch \in {"draw_commit", "text_commit"} =>
          LET app == Append(SubSeq(annotation_history, 1, history_index + 1), annotations')
          IN  /\ annotation_history' = IF Len(app) > MAX_HISTORY THEN Tail(app) ELSE app
              /\ history_index' = Len(annotation_history') - 1
              /\ redo(Self)' = Self']_vars

C6_Witness ==
    /\ ev.branch \in {"draw_commit", "text_commit"}
    /\ ev.cut
    /\ history_index = Len(annotation_history) - 1
    /\ annotation_history[Len(annotation_history)] = annotations

\* C7: selection_complete implies a stored selection rectangle that is
\* normalized and wider and higher than MIN_SELECTION_SIZE; the pointer-up
\* that ends a drag whose rectangle is not leaves selection_complete unset.
C7_CompleteImpliesMinSize ==
    /\ [](selection_complete =>
            /\ IsValid(selection_rect)
            /\ Normalized(selection_rect) = selection_rect
            /\ Width(selection_rect) > MIN_SELECTION_SIZE
            /\ Height(selection_rect) > MIN_SELECTION_SIZE)
    /\ [][(/\ is_selecting
           /\ ~is_selecting'
           /\ \/ Width(selection_rect) <= MIN_SELECTION_SIZE
              \/ Height(selection_rect) <= MIN_SELECTION_SIZE)
          => ~selection_complete']_vars

\* the smallest selection the drags of the model complete
C7_Witness ==
    /\ ev.branch = "sel_ok"
    /\ selection_complete
    /\ Width(selection_rect) = MIN_SELECTION_SIZE + 1

\* the bounding box of two points: both points are corners of it
BoundingBox(a, b) ==
    [x1 |-> Min(a.x, b.x), y1 |-> Min(a.y, b.y),
     x2 |-> Max(a.x, b.x), y2 |-> Max(a.y, b.y)]

\* C8: during a selection drag begun at a, the pointer position b makes the
\* selection rectangle the bounding box of (a, b), of non-negative size,
\* whatever the direction of the drag; pointer-up commits that rectangle.
C8_SelectionIsBoundingBox ==
    [][\A p \in MovePoints :
          (is_selecting /\ ~is_exiting /\ MouseMove(p)) =>
              /\ selection_rect' =
                    BoundingBox(selection_start,
                                widget_to_desktop_point(virtual_geometry, p))
              /\ Width(selection_rect') >= 0
              /\ Height(selection_rect') >= 0]_vars

\* C9: a pointer-up that ends a selection drag whose rectangle does not exceed
\* MIN_SELECTION_SIZE in both dimensions leaves the selection Empty: not
\* complete, not being dragged, and no rectangle of the drag stored.
C9_RejectedDragLeavesNoRect ==
    (ev.op = "release" /\ ev.branch = "sel_rejected") =>
        /\ ~selection_complete
        /\ ~is_selecting
        /\ selection_rect = QRectNull

\* the provisional shape of a drag from a to b fails its gate
GateFails(mode, a, b) ==
    \/ /\ mode = "ARROW"
       /\ SquaredLength(a, b) < MIN_ARROW_LENGTH * MIN_ARROW_LENGTH
    \/ /\ mode = "RECTANGLE"
       /\ \/ Width(Normalized(QRectPP(a, b))) <= MIN_RECT_SIZE
          \/ Height(Normalized(QRectPP(a, b))) <= MIN_RECT_SIZE

\* C10: a pointer-up that ends a drawing drag whose provisional shape fails
\* its gate leaves the annotation list, the history log and the index as they
\* were.
C10_RejectedShapeCommitsNothing ==
    [][\A p \in DrawUps :
          (/\ is_drawing
           /\ ~is_selecting
           /\ ~is_exiting
           /\ GateFails(annotation_mode, draw_start_point, p)
           /\ MouseRelease("Left", p, MaxAnnotations))
          => UNCHANGED <<annotations, annotation_history, history_index>>]_vars

\* a rejected drag that found an annotation already committed
C10_Witness ==
    /\ ev.op = "release"
    /\ ev.branch = "draw_rejected"
    /\ Len(annotations) = 1
    /\ history_index = 1

\* what the claim lists: selection, annotations, history, mode, style, the
\* provisional shape and the text-edit state
SessionState ==
    <<selection_rect, is_selecting, selection_start, selection_complete,
      annotations, annotation_history, history_index, annotation_mode,
      current_color_index, current_style, is_drawing, draw_start_point,
      current_rect, current_arrow_end, is_text_editing, text_position,
      current_text, text_cursor_position>>

C12_CancelledSaveRestoresOverlay ==
    (ev.op = "key" /\ ev.branch = "save" /\ ~app_quit) => ~is_exiting

\* C13: when the capture of the session failed (null background image), no
\* pointer event starts a selection drag or brings the selection to Complete.
C13_CaptureFailureIsTerminal ==
    background_screenshot = NullPixmap => (~is_selecting /\ ~selection_complete)

\* the first backend, in the fixed order, whose stored flag is set; 0 if none
Pinned(flags) ==
    IF \E i \in 1..Len(flags) : flags[i]
    THEN CHOOSE i \in 1..Len(flags) : flags[i] /\ \A j \in 1..(i - 1) : ~flags[j]
    ELSE 0

\* C14: the stored flags are the availability found when the backends were
\* built; the pinned backend is the first of the five whose flag is set, none
\* if no flag is set; later calls of get_virtual_geometry, capture_all_screens
\* and get_backend_info change neither the flags nor the pinned backend, probe
\* no second time, and report the pinned backend as the active one, whatever
\* the availability has become.
C14_PinnedIsFirstAvailable ==
    /\ backends = available
    /\ [](/\ Len(backends) = 5
          /\ active_backend = Pinned(backends)
          /\ probe_count = 1
          /\ \A i \in 1..5 :
                get_backend_info(Cls, available).result[i].active <=> i = active_backend)
    /\ [][UNCHANGED <<backends, active_backend, probe_count>>]_vars

\* the static methods were called after a higher-priority backend than the
\* pinned one became available
C14_Witness ==
    /\ ev.op = "capture_all_screens"
    /\ ev.branch = "captured"
    /\ active_backend = 3
    /\ available[1]
    /\ ~available[3]
    /\ capture_calls = <<3, 3>>

\* C15: a capture call in which the capture of the pinned external backend
\* fails returns a null image and invokes the capture of the pinned backend
\* only; no capture of another backend is ever invoked.
C15_FailedCaptureNoFallback ==
    /\ [](\A k \in 1..Len(capture_calls) : capture_calls[k] = active_backend)
    /\ [][\A outcome \in CaptureOutcomes \ {"ok"} :
            (/\ active_backend > 1
             /\ ~IsEmpty(backend_get_virtual_geometry(screens))
             /\ CallCaptureAllScreens(outcome))
            => /\ captured' = NullPixmap
               /\ capture_calls' = Append(capture_calls, active_backend)]_vars

\* a failed capture while a lower-priority backend was available
C15_Witness ==
    /\ ev.op = "capture_all_screens"
    /\ ev.branch = "failed"
    /\ captured = NullPixmap
    /\ active_backend = 2
    /\ backends[5]
    /\ available[5]
    /\ Len(capture_calls) = 2

\* the pixels of a rectangle
PixelsOf(r) == {<<x, y>> : x \in r.x1..r.x2, y \in r.y1..r.y2}

\* the selection translated into the capture image: same size, moved by the
\* origin of the virtual geometry
TranslatedSelection ==
    [x1 |-> selection_rect.x1 - virtual_geometry.x1,
     y1 |-> selection_rect.y1 - virtual_geometry.y1,
     x2 |-> selection_rect.x2 - virtual_geometry.x1,
     y2 |-> selection_rect.y2 - virtual_geometry.y1]

\* C16: for the capture image, selection rectangle and virtual geometry of
\* every reachable state, extract_rect_from_pixmap reads exactly the pixels of
\* the translated rectangle that lie in [0,w) x [0,h), none outside the image,
\* and returns a null image when there is no such pixel.
C16_CropIsIntersection ==
    LET read == extract_rect_from_pixmap(background_screenshot, selection_rect,
                                         virtual_geometry)
        w == background_screenshot[1]
        h == background_screenshot[2]
        inside == {px \in PixelsOf(TranslatedSelection) :
                      0 <= px[1] /\ px[1] < w /\ 0 <= px[2] /\ px[2] < h}
    IN  /\ PixelsOf(read) = inside
        /\ inside = {} => read = QRectNull

\* a copy whose crop was clamped on the right and bottom side of the image
C16_Witness ==
    /\ ev.op = "key"
    /\ ev.branch = "copy"
    /\ app_quit
    /\ TranslatedSelection.x2 >= background_screenshot[1]
    /\ get_selected_pixmap_with_annotations(Self).source_rect.x2 = background_screenshot[1] - 1

\* C17: in the image a copy or save renders and hands off, a window
\* point p is painted at p minus the top-left of the selection (window
\* space), and that is the pixel of the cropped image showing the capture
\* image's pixel p: the painter's translation is minus the top-left of the
\* part of the capture image the crop shows.
C17_AnnotationsAlignWithCrop ==
    LET image == get_selected_pixmap_with_annotations(Self)
        selection_widget_rect == desktop_to_widget_rect(virtual_geometry, selection_rect)
    IN  (ev.branch \in {"copy", "save"} /\ is_exiting /\ image.source_rect # QRectNull) =>
            /\ image.translate = Pt(0 - selection_widget_rect.x1, 0 - selection_widget_rect.y1)
            /\ image.translate = Pt(0 - image.source_rect.x1, 0 - image.source_rect.y1)

\* the points and rectangles the overlay holds
HeldPoints == {selection_start, draw_start_point, current_arrow_end, text_position}
HeldRects == {selection_rect, current_rect, QRectNull}

\* C18: for the virtual geometry of every reachable state and every point and
\* rectangle the overlay holds, converting to the widget space and back, or
\* to the desktop space and back, gives the same point or rectangle, and
\* each conversion of a rectangle keeps its size.
C18_ConversionRoundTrip ==
    LET g == virtual_geometry
    IN  /\ \A p \in HeldPoints :
              /\ widget_to_desktop_point(g, desktop_to_widget_point(g, p)) = p
              /\ desktop_to_widget_point(g, widget_to_desktop_point(g, p)) = p
        /\ \A r \in HeldRects :
              /\ widget_to_desktop_rect(g, desktop_to_widget_rect(g, r)) = r
              /\ desktop_to_widget_rect(g, widget_to_desktop_rect(g, r)) = r
              /\ Width(desktop_to_widget_rect(g, r)) = Width(r)
              /\ Height(desktop_to_widget_rect(g, r)) = Height(r)
              /\ Width(widget_to_desktop_rect(g, r)) = Width(r)
              /\ Height(widget_to_desktop_rect(g, r)) = Height(r)

\* a pointer-down inside a selection, the origin of the virtual geometry and
\* the selection's corner having negative coordinates
C18_Witness ==
    /\ ev.op = "press"
    /\ ev.branch = "inside"
    /\ virtual_geometry.x1 < 0
    /\ selection_rect.x1 < 0
    /\ draw_start_point # QPointNull

\* C19: the thickness of the current style is in [1, 20] in every reachable
\* state; a wheel event that arrives while the selection is Complete (and the
\* overlay not exiting) moves it one up or one down, clamped to [1, 20], and
\* one that arrives while the selection is not Complete leaves it unchanged.
C19_ThicknessClamped ==
    /\ [](1 <= current_style.thickness /\ current_style.thickness <= 20)
    /\ [][\A delta \in WheelDeltas :
            (~is_exiting /\ Wheel(delta)) =>
                LET th == current_style.thickness
                    step == current_style'.thickness - th
                IN  IF selection_complete
                    THEN /\ current_style'.thickness =
                                IF delta > 0 THEN Min(20, th + 1) ELSE Max(1, th - 1)
                         /\ step \in {-1, 0, 1}
                         /\ step = 0 <=> \/ (delta > 0 /\ th = 20)
                                         \/ (delta <= 0 /\ th = 1)
                    ELSE UNCHANGED current_style]_vars

\* a wheel step up that found the thickness at 20
C19_Witness ==
    /\ ev.op = "wheel"
    /\ ev.branch = "up"
    /\ ~ev.changed
    /\ current_style.thickness = 20

\* the buffer without the blanks at its two ends
Trimmed(t) ==
    IF \A i \in 1..Len(t) : t[i] \in Whitespace
    THEN <<>>
    ELSE LET first == CHOOSE i \in 1..Len(t) :
                          t[i] \notin Whitespace /\ \A j \in 1..(i - 1) : t[j] \in Whitespace
             last == CHOOSE i \in 1..Len(t) :
                         t[i] \notin Whitespace /\ \A j \in (i + 1)..Len(t) : t[j] \in Whitespace
         IN  SubSeq(t, first, last)

\* C20: Return during a text edit, and finish_text_editing in every state
\* with a text edit, appends a Text annotation holding the trimmed buffer and
\* pushes one snapshot if the trimmed buffer is not empty, and leaves the
\* annotation list, the history log and the index unchanged if it is empty;
\* either way the text edit is over and the buffer empty.
C20_FinishCommitsTrimmedText ==
    /\ [](is_text_editing =>
            LET f == finish_text_editing(Self)
                content == Trimmed(current_text)
            IN  /\ ~f.is_text_editing
                /\ f.current_text = <<>>
                /\ IF content # <<>>
                   THEN /\ f.annotations =
                              Append(annotations,
                                     TextAnnotation(text_position, content, current_style))
                        /\ f.annotation_history =
                              Append(SubSeq(annotation_history, 1, history_index + 1),
                                     f.annotations)
                        /\ f.history_index = history_index + 1
                   ELSE /\ f.annotations = annotations
                        /\ f.annotation_history = annotation_history
                        /\ f.history_index = history_index)
    /\ [][(is_text_editing /\ ~is_exiting
           /\ KeyPressTyped(Key("Return", FALSE, <<"\\r">>)))
          => Self' = finish_text_editing(Self)]_vars

\* a commit of "3" from a buffer of two characters, one of them a blank
C20_Witness ==
    /\ ev.op = "key"
    /\ ev.branch = "text_commit"
    /\ ~is_text_editing
    /\ current_text = <<>>
    /\ text_cursor_position = 2
    /\ annotations = <<TextAnnotation(DeepDown, <<"3">>, current_style)>>
    /\ annotation_history = << <<>>, annotations >>

\* C21: in Text mode a left press inside the complete selection while a text
\* edit is active commits the prior text when its trimmed content is not empty
\* (one annotation at the old position, one history push) and drops it
\* otherwise, then starts an edit at the pressed point with an empty buffer and
\* the caret at 0; afterwards text editing is on and the drawing flag is off.
C21_SecondClickRestartsText ==
    [][\A p \in TextDowns :
         (/\ is_text_editing /\ annotation_mode = "TEXT" /\ ~is_exiting
          /\ selection_complete
          /\ Contains(desktop_to_widget_rect(virtual_geometry, selection_rect), p)
          /\ MousePress("Left", p, MaxAnnotations))
         => LET content == Trimmed(current_text)
                prior == TextAnnotation(text_position, content, current_style)
            IN  /\ annotations' = IF content # <<>> THEN Append(annotations, prior)
                                                    ELSE annotations
                /\ IF content # <<>>
                   THEN /\ history_index' = Len(annotation_history') - 1
                        /\ annotation_history'[Len(annotation_history')] = annotations'
                        /\ Len(annotation_history') = history_index + 2
                   ELSE UNCHANGED <<annotation_history, history_index>>
                /\ is_text_editing' /\ ~is_drawing'
                /\ text_position' = p
                /\ current_text' = <<>>
                /\ text_cursor_position' = 0
                /\ UNCHANGED <<selection_rect, selection_complete, annotation_mode,
                               is_selecting, is_exiting>>]_vars

\* a second press at another point committed the text typed at the first
C21_Witness ==
    /\ ev.op = "press" /\ ev.branch = "inside"
    /\ is_text_editing /\ ~is_drawing
    /\ text_position = Pt(6, 8) /\ current_text = <<>>
    /\ Len(annotations) = 1
    /\ annotations[1].type = "TEXT" /\ annotations[1].position = DeepDown

\* C22: history snapshots are independent copies.  No snapshot in the log is
\* the list object self.annotations names, and every step leaves the contents
\* of the snapshots that stay in the log as they were: the log is unchanged
\* (undo, redo, every event that does not commit), emptied or seeded anew (a
\* session reset and the selection that follows), or it keeps the snapshots up
\* to the index, less the oldest one on eviction, and gains one snapshot.
C22_SnapshotsAreIndependent ==
    /\ [](shared_snapshots = {})
    /\ [][\/ annotation_history' = annotation_history
          \/ annotation_history' = <<>>
          \/ annotation_history' = << <<>> >> /\ ev'.branch = "sel_ok"
          \/ \E shift \in {0, 1} :
                /\ Len(annotation_history') = history_index + 2 - shift
                /\ \A i \in 1..(Len(annotation_history') - 1) :
                      annotation_history'[i] = annotation_history[i + shift]
                /\ annotation_history'[Len(annotation_history')] = annotations'
                /\ annotations' # annotations]_vars

\* a commit onto a list that two earlier snapshots precede, each still holding
\* what it held when it was stored
C22_Witness ==
    /\ ev.op = "release" /\ ev.branch = "draw_commit"
    /\ Len(annotations) = 3
    /\ Len(annotation_history) = 4
    /\ \A i \in 1..4 : annotation_history[i] = SubSeq(annotations, 1, i - 1)

\* C23: in every reachable state at most one of the flags selecting, drawing,
\* text-editing and exiting is set; in particular neither the selecting nor
\* the drawing flag is set once the overlay is exiting.
C23_OneInteractionState ==
    /\ ~(is_selecting /\ is_drawing)
    /\ ~(is_selecting /\ is_text_editing)
    /\ ~(is_drawing /\ is_text_editing)
    /\ is_exiting => ~(is_selecting \/ is_drawing \/ is_text_editing)

\* the annotations of a list as they draw when the overlay's style is st
Resolved(list, st) ==
    [i \in 1..Len(list) |->
        [list[i] EXCEPT !.style = IF @ = CurrentStyleObject THEN st ELSE @]]

\* C24: a committed annotation is immutable.  A scroll, a cycle-color and a
\* mode switch leave every annotation of the current list and of every
\* snapshot with its geometry, thickness and color; undo and redo leave the
\* snapshots so and make the current list one of them; a commit leaves the
\* annotations before it so and gives the new one the thickness and color the
\* overlay's style has at the commit.
C24_CommittedAnnotationImmutable ==
    [][/\ ev'.branch \in {"up", "down", "color", "mode", "undo", "redo"} =>
            /\ Len(annotation_history') = Len(annotation_history)
            /\ \A i \in 1..Len(annotation_history) :
                  Resolved(annotation_history'[i], current_style')
                      = Resolved(annotation_history[i], current_style)
       /\ ev'.branch \in {"up", "down", "color", "mode"} =>
            Resolved(annotations', current_style') = Resolved(annotations, current_style)
       /\ ev'.branch \in {"undo", "redo"} =>
            Resolved(annotations', current_style')
                = IF history_index' = history_index
                  THEN Resolved(annotations, current_style)
                  ELSE Resolved(annotation_history[history_index' + 1], current_style)
       /\ ev'.branch = "draw_commit" =>
            /\ Len(annotations') = Len(annotations) + 1
            /\ SubSeq(Resolved(annotations', current_style'), 1, Len(annotations))
                  = Resolved(annotations, current_style)
            /\ annotations'[Len(annotations')].style = current_style
            /\ \A i \in 1..(Len(annotation_history') - 1) :
                  Resolved(annotation_history'[i], current_style')
                      = Resolved(annotation_history[
                            i + history_index + 2 - Len(annotation_history')],
                            current_style)]_vars

\* the wheel or the color key changed the overlay's style after an annotation
\* was committed with another thickness and another color
C24_Witness ==
    /\ ev.branch \in {"up", "down", "color"}
    /\ Len(annotations) = 1
    /\ annotations[1].style.thickness # current_style.thickness
    /\ annotations[1].style.color # current_style.color
    /\ \E i \in 1..Len(annotation_history) : annotation_history[i] = annotations

\* C25: a left pointer-down inside a complete selection never starts a new
\* selection: the selection rectangle, selection_complete, the selecting flag,
\* the mode and the history log's reset state stay as they are, and the press
\* is annotation input only: in mode None nothing changes, in Arrow and
\* Rectangle mode a drawing drag begins at the point, in Text mode a text edit
\* begins at the point.
C25_PressInsideIsAnnotationInput ==
    [][(/\ selection_complete /\ ~is_exiting
        /\ Contains(desktop_to_widget_rect(virtual_geometry, selection_rect), DeepDown)
        /\ MousePress("Left", DeepDown, MaxAnnotations))
       => /\ UNCHANGED <<selection_rect, selection_complete, is_selecting,
                         selection_start, annotation_mode>>
          /\ ~is_selecting'
          /\ annotation_history' # <<>>
          /\ annotation_mode = "NONE" => UNCHANGED SessionState
          /\ annotation_mode \in {"ARROW", "RECTANGLE"} =>
                /\ is_drawing' /\ draw_start_point' = DeepDown
                /\ ~is_text_editing'
                /\ UNCHANGED <<annotations, annotation_history, history_index>>
          /\ annotation_mode = "TEXT" =>
                /\ is_text_editing' /\ text_position' = DeepDown
                /\ ~is_drawing']_vars

\* a press inside the selection began a drawing drag over an annotation
\* committed before, which a new selection would have cleared
C25_Witness ==
    /\ ev.op = "press" /\ ev.branch = "inside"
    /\ is_drawing /\ annotation_mode = "RECTANGLE"
    /\ selection_complete /\ ~is_selecting
    /\ Len(annotations) = 1

Linear(v) ==
    CASE v = 0 -> 0
      [] v = 128 -> 2159
      [] v = 255 -> 10000

\* relative luminance in 1/10000
Luminance(c) == (2126 * Linear(c[1]) + 7152 * Linear(c[2]) + 722 * Linear(c[3])) \div 10000

\* the one of black and white with the higher contrast ratio against c:
\* (L + 0.05) / 0.05 against black, 1.05 / (L + 0.05) against white
HigherContrast(c) ==
    IF (Luminance(c) + 500) * (Luminance(c) + 500) > 10500 * 500 THEN Black ELSE White

\* C27: for every color of the palette the outline color is the one of black
\* and white that has the higher contrast against it; stated of the style the
\* overlay draws with and of the style of every committed annotation.
C27_OutlineIsHigherContrast ==
    /\ outline_color(current_style) = HigherContrast(rgb(current_style.color))
    /\ \A i \in 1..Len(annotations) :
          outline_color(style_of(Self, annotations[i]))
              = HigherContrast(rgb(style_of(Self, annotations[i]).color))

\* the keys handle_text_input treats as editing keys
EditingKeys == {"Backspace", "Delete", "Left", "Right", "Return", "Enter", "Escape"}

\* the characters of the texts held by the text annotations of a list
TextsOf(list) == {list[i].text : i \in {j \in 1..Len(list) : list[j].type = "TEXT"}}

\* C28: the text buffer, and so every committed text, holds printable
\* characters only, and while a text edit is active a key event whose text is
\* empty or holds a non-printable character, the key being none of Backspace,
\* Delete, Left, Right, Enter and Escape, changes neither the buffer nor the
\* caret position.
C28_BufferHoldsPrintableOnly ==
    /\ [](/\ \A i \in 1..Len(current_text) : current_text[i] \in Printable
          /\ \A t \in TextsOf(annotations) : \A i \in 1..Len(t) : t[i] \in Printable)
    /\ [][\A k \in KeyboardKeyEvents :
            (/\ is_text_editing /\ ~is_exiting
             /\ k.key \notin EditingKeys
             /\ \/ k.text = <<>>
                \/ \E i \in 1..Len(k.text) : k.text[i] \notin Printable
             /\ KeyboardKeyPress(k, FALSE))
            => UNCHANGED <<current_text, text_cursor_position, is_text_editing>>]_vars

\* a key that is no editing key met the caret at the end of a buffer that is
\* not empty and changed nothing: Left, Backspace, Enter and Escape change
\* the buffer, the caret or the editing flag there
C28_Witness ==
    /\ ev.op = "key" /\ ev.branch = "text_input" /\ ~ev.changed
    /\ is_text_editing
    /\ current_text # <<>> /\ text_cursor_position = Len(current_text)

\* C30: while a text edit is active every key event goes to the text editor
\* and no shortcut acts: the overlay does not start to exit or quit, mode,
\* color and thickness stay, and the annotation list and the history log
\* change only by the commit Enter makes of a buffer that is not blank (one
\* annotation appended, one snapshot pushed).  Escape ends the edit with the
\* buffer emptied and the list and the log as they were.
C30_TextEditConsumesKeys ==
    [][\A k \in KeyboardKeyEvents : \A f \in DialogResults(k) :
         (is_text_editing /\ ~is_exiting /\ KeyboardKeyPress(k, f))
         => /\ ~is_exiting' /\ ~app_quit'
            /\ UNCHANGED <<annotation_mode, current_color_index, current_style,
                           selection_rect, selection_complete>>
            /\ IF k.key \in {"Return", "Enter"} /\ Trimmed(current_text) # <<>>
               THEN /\ annotations' =
                          Append(annotations,
                                 TextAnnotation(text_position, Trimmed(current_text),
                                                current_style))
                    /\ history_index' = history_index + 1
                    /\ annotation_history'[history_index' + 1] = annotations'
               ELSE UNCHANGED <<annotations, annotation_history, history_index>>
            /\ k.key = "Escape" => ~is_text_editing' /\ current_text' = <<>>]_vars

\* Escape ended an edit whose buffer held one character: the caret position
\* still counts it, nothing was committed and the overlay is not exiting
C30_Witness ==
    /\ ev.op = "key" /\ ev.branch = "text_input" /\ ev.changed
    /\ ~is_text_editing /\ current_text = <<>> /\ text_cursor_position = 1
    /\ annotations = <<>> /\ history_index = 0
    /\ ~is_exiting /\ ~app_quit

\* C29: the events that are dispatched while the exit sequence runs (pointer,
\* key and wheel events and close requests between the event pump of
\* prepare_exit and the quit, and the close event the exit raises itself)
\* find the exiting flag set and change nothing of the session; the step that
\* sets the flag commits the text in progress at most once, and the body of
\* prepare_exit runs at most once.
C29_ReentrantEventsFindFlagSet ==
    /\ [](exit_runs <= 1)
    /\ [](is_exiting <=> exit_runs = 1)
    /\ [][is_exiting => (is_exiting' /\ UNCHANGED <<SessionState, exit_runs>>)]_vars
    /\ [][(~is_exiting /\ is_exiting') =>
            /\ ~is_text_editing'
            /\ IF is_text_editing /\ Trimmed(current_text) # <<>>
               THEN annotations' =
                        Append(annotations,
                               TextAnnotation(text_position, Trimmed(current_text),
                                              current_style))
               ELSE annotations' = annotations]_vars

\* an input event arrived between the event pump and the quit of an exit
\* that had committed the text in progress
C29_Witness ==
    /\ ev.op \in {"press", "move", "release", "key", "wheel"}
    /\ ev.branch = "ignored"
    /\ is_exiting /\ ~app_quit /\ exit_runs = 1
    /\ Len(annotations) = 1 /\ annotations[1].type = "TEXT"
    /\ history_index = 1

\* the annotation list, the history log and the index of an overlay record
HistoryOf(s) == <<s.annotations, s.annotation_history, s.history_index>>

\* C31: an undo that is not a no-op, followed at once by redo, gives back the
\* annotation list, the history log and the index from before the undo, and
\* a redo that is not a no-op, followed at once by undo, likewise; stated of
\* every undo and redo step that changed the overlay, and of undo and redo
\* applied in every reachable state.
C31_UndoRedoRoundTrip ==
    /\ [](/\ undo(Self) # Self => HistoryOf(redo(undo(Self))) = HistoryOf(Self)
          /\ redo(Self) # Self => HistoryOf(undo(redo(Self))) = HistoryOf(Self))
    /\ [][/\ (ev'.branch = "undo" /\ history_index' # history_index) =>
                HistoryOf(redo(Self')) = HistoryOf(Self)
          /\ (ev'.branch = "redo" /\ history_index' # history_index) =>
                HistoryOf(undo(Self')) = HistoryOf(Self)]_vars

\* an undo took the only annotation off the list; redo brings it back
C31_Witness ==
    /\ ev.op = "key" /\ ev.branch = "undo" /\ ev.changed
    /\ annotations = <<>>
    /\ history_index = 0 /\ Len(annotation_history) = 2
    /\ redo(Self).annotations = annotation_history[2]
    /\ Len(annotation_history[2]) = 1

\* the strokes draw the arrows and rectangles of the list in the list's
\* order, each by an outline stroke of width thickness + 2 and then a main
\* stroke of width thickness
TwoPassInOrder(strokes, list) ==
    /\ Len(strokes) >= 2 * Len(list)
    /\ \A i \in 1..Len(list) :
          LET outline == strokes[2 * i - 1]
              main == strokes[2 * i]
          IN  /\ outline.pass = "outline" /\ outline.shape = list[i]
              /\ main.pass = "main" /\ main.shape = list[i]
              /\ outline.width = list[i].style.thickness + 2
              /\ main.width = list[i].style.thickness
              /\ outline.width > main.width

C33_ListEqualsCurrentSnapshot ==
    /\ [](selection_complete =>
            /\ history_index \in 0..(Len(annotation_history) - 1)
            /\ annotations = annotation_history[history_index + 1])
    /\ [][(~selection_complete /\ selection_complete') =>
            /\ annotation_history' = << <<>> >>
            /\ history_index' = 0
            /\ annotations' = <<>>]_vars

\* C34: the copy and save actions render and hand off an image, and begin
\* the exit sequence, only when the selection is Complete; invoked while the
\* selection is not Complete (a selection drag in progress, or after a
\* rejected drag) they change no state and export nothing.
C34_ExportOnlyWhenComplete ==
    [][(ev'.op = "key" /\ ev'.branch \in {"copy", "save"} /\ ~selection_complete) =>
          /\ Self' = Self
          /\ ~is_exiting'
          /\ ~app_quit']_vars

\* the commit gate of an annotation
PassesGate(annotation) ==
    IF annotation.type = "ARROW"
    THEN SquaredLength(annotation.start, annotation.end)
             >= MIN_ARROW_LENGTH * MIN_ARROW_LENGTH
    ELSE IF annotation.type = "RECTANGLE"
    THEN /\ Normalized(annotation.rect) = annotation.rect
         /\ Width(annotation.rect) > MIN_RECT_SIZE
         /\ Height(annotation.rect) > MIN_RECT_SIZE
    ELSE /\ annotation.text # <<>>
         /\ Head(annotation.text) \notin Whitespace
         /\ annotation.text[Len(annotation.text)] \notin Whitespace

\* C35: in every reachable state, every annotation in the current list and in
\* every history snapshot satisfies its commit gate: an Arrow has length >=
\* MIN_ARROW_LENGTH (so rendering never skips it), a Rectangle is normalized
\* with width and height > MIN_RECT_SIZE, a Text is non-empty with no leading
\* or trailing whitespace.
C35_CommittedPassGates ==
    /\ \A i \in 1..Len(annotations) :
          /\ PassesGate(annotations[i])
          /\ annotation_draw(Self, annotations[i]) # <<>>
    /\ \A h \in 1..Len(annotation_history) :
          \A i \in 1..Len(annotation_history[h]) : PassesGate(annotation_history[h][i])

\* a rectangle just above the size gate was committed
C35_Witness ==
    /\ ev.op = "release" /\ ev.branch = "draw_commit"
    /\ Len(annotations) = 1
    /\ annotations[1].type = "RECTANGLE"
    /\ Width(annotations[1].rect) = MIN_RECT_SIZE + 1

\* the mode-select keys
ModeKeys == {Key("1", FALSE, <<"1">>), Key("2", FALSE, <<"2">>), Key("3", FALSE, <<"3">>)}

\* C36: the kind of annotation committed at pointer-up is the annotation mode
\* that was active at the pointer-down that began the drag: right after that
\* pointer-down, a mode-select key does not change what a pointer-up at any
\* position commits.
C36_CommitsModeAtPress ==
    (ev.op = "press" /\ ev.branch = "inside" /\ is_drawing) =>
        \A k \in ModeKeys : \A p \in DrawUps :
            LET switched == keyPressEvent(Self, k, FALSE)
            IN  mouseReleaseEvent(switched, "Left", p).annotations
                    = mouseReleaseEvent(Self, "Left", p).annotations

\* C37: in every reachable state, an active text edit implies that the
\* selection is Complete and the annotation mode is Text, and the selecting
\* flag set implies that the selection is not Complete.
C37_TextEditAndSelectingFlags ==
    /\ is_text_editing => (selection_complete /\ annotation_mode = "TEXT")
    /\ is_selecting => ~selection_complete

\* a pointer-down outside the selection arrived during a text edit
C37_Witness ==
    /\ ev.op = "press" /\ ev.branch = "outside_text"
    /\ is_selecting
    /\ ~is_text_editing
    /\ ~selection_complete
    /\ annotation_mode = "NONE"

====
